---- MODULE Spec2Model ----
(***************************************************************************)
(* vscode-nodebook: the NodeKernel of src/src/nodeKernel.ts, its debug     *)
(* adapter tracker (the two message hooks), the visitSources traversal,    *)
(* the notebook document it reads and the temp storage it writes.          *)
(***************************************************************************)
EXTENDS Integers, Sequences, FiniteSets, TLC

(* ------------------------------ bounds --------------------------------- *)
\* cell handles the document hands out over its life
MaxCells == 2
\* temp directories mkdtempSync hands out before it starts failing
MaxDirs == 2
\* elements of a source-carrying array in a response body
MaxFrames == 2
\* the same, for the responses of a whole debug session
MaxSessionFrames == 1
\* edits of cell text over a run
MaxEdits == 1
\* failures of file-system calls (mkdtempSync, writeFileSync, rmdir) over a run
MaxFaults == 1
\* start() calls suspended on getPort() at the same time
MaxStarts == 1
\* debug sessions VS Code starts over a run
MaxSessions == 2
\* calls of Nodebook.eval and Nodebook.restartKernel suspended at the same time
MaxCallers == 2
\* node processes alive at the same time
MaxRuntimes == 2
\* calls of toggleDebugging over a run
MaxToggles == 2
\* messages whose way through the tracker is recorded
MaxStream == 3

VARIABLES
    cells,          \* document.cells: sequence of cell handles, in document order
    nextHandle,     \* the handle the next inserted cell gets
    text,           \* cell handle -> version of cell.document.getText()
    outputs,        \* cell handle -> cell.outputs: the kinds of the outputs, in order
    nodeRuntime,    \* NodeKernel.nodeRuntime is set (a process is recorded)
    starting,       \* start() calls suspended at `await getPort()`
    pathToCell,     \* NodeKernel.pathToCell: temp path -> cell handle
    tmpDirectory,   \* NodeKernel.tmpDirectory: 0 = undefined, else the directory
    dirCount,       \* directories mkdtempSync has created so far
    dirs,           \* directories that exist on disk
    files,          \* temp path -> text version written in it (files on disk)
    pending,        \* directories handed to rmdir whose removal has not run yet
    faults,         \* file-system calls that have failed so far
    inflight,       \* the message a tracker hook has just processed (NoFlight if none):
                    \* msg as handed in, out as left behind, visits = the Sources the
                    \* traversal invoked the callback on, in the order of the calls
    lastEval,       \* outcome of the eval() that is in progress (NoEval if none)
    dumps,          \* history: the paths dumpCell has returned since the last stop()
    stale,          \* history: the paths dumpCell returned before the last stop()
    other,          \* the NodeKernel of the other notebook: its cells, pathToCell
                    \* and tmpDirectory
    map,            \* NodeKernel.map of the synthetic-source variant: cell number ->
                    \* the uri and the source reference of its NodeCellInfo
    associations,   \* NodebookContentProvider._associations: the notebooks registered
    activeDebugSession, \* Nodebook.activeDebugSession: 0 = undefined, else the session
    sessions,       \* the debug sessions VS Code has created, in order: the
                    \* __notebookID of the configuration, the notebook whose
                    \* tracker the factory returned, how far the session is, and
                    \* whether removeDebugSession has cleared it
    stream,         \* history, kept while stream.on: the messages handed to the
                    \* hooks (entered) and the messages passed on (left), in order
    runtimes,       \* history: the node processes spawned and not killed
    debugging,      \* Nodebook.debugging
    kinds,          \* cell.cellKind of every cell
    margin,         \* cell.metadata.breakpointMargin of every cell
    calls,          \* the calls of Nodebook.eval and Nodebook.restartKernel that
                    \* are suspended at an await, and how far each one is
    toggle,         \* history: what the calls of toggleDebugging found and did
    nodebooks       \* history: per document, the Nodebook objects constructed
                    \* and not disposed

vars == <<cells, nextHandle, text, outputs, nodeRuntime, starting, pathToCell, tmpDirectory,
          dirCount, dirs, files, pending, faults, inflight, lastEval, dumps, stale,
          other, map, associations, activeDebugSession, sessions, stream,
          runtimes, debugging, kinds, margin, calls, toggle, nodebooks>>

docVars == <<cells, nextHandle, text, outputs>>
kernelVars == <<nodeRuntime, runtimes, starting, pathToCell, tmpDirectory>>
fsVars == <<dirCount, dirs, files, pending, faults>>
histVars == <<dumps, stale>>
sessionVars == <<associations, activeDebugSession, sessions>>
nbVars == <<debugging, margin, calls, toggle, nodebooks>>
auxVars == <<other, map, sessionVars, nbVars, kinds>>

(* ------------------------------ strings -------------------------------- *)
(* A string is a record of the parts the code takes it apart into:         *)
(*   kind "uri"  : scheme ':' loc '#' n        (what Uri.toString() prints) *)
(*   kind "tmp"  : <dir n1>/nodebook_cell_<n>.js   (no scheme)              *)
(*   kind "path" : any other text without a scheme                          *)
(*   kind "undefined" : the field is absent                                 *)
Str(kind, scheme, loc, dir, n) ==
    [kind |-> kind, scheme |-> scheme, loc |-> loc, dir |-> dir, n |-> n]

Undefined == Str("undefined", "", "", 0, 0)

CellScheme == "vscode-notebook-cell"

\* the notebook document of this kernel, and another notebook's document
DocPath == "/work/doc.nodebook"
OtherDocPath == "/work/other.nodebook"

\* cell.uri.toString() of the cell with handle h of the document at loc
CellUriString(loc, h) == Str("uri", CellScheme, loc, 0, h)

\* `${tmpDirectory}/nodebook_cell_${fragment}.js`
CellPath_shared(dir, fragment) == Str("tmp", "", "", dir, 0)

CellPath(dir, fragment) == Str("tmp", "", "", dir, fragment)

FileUriString == Str("uri", "file", "/work/app.js", 0, 0)

\* document.uri.toString() of the notebook document at loc
DocUriString(loc) == Str("uri", "file", loc, 0, 0)
InternalPath == Str("path", "", "<node_internals>/fs.js", 0, 0)

\* JavaScript truthiness of an optional string field
Truthy(s) == s.kind # "undefined"

\* vscode.Uri.parse(uri, true): strict mode throws when the text has no scheme
UriParse(s) ==
    IF s.kind = "uri"
    THEN [threw |-> FALSE, scheme |-> s.scheme, fsPath |-> s.loc, fragment |-> s.n]
    ELSE [threw |-> TRUE, scheme |-> "", fsPath |-> "", fragment |-> 0]

\* PATH.basename of the two document paths
Basename(p) ==
    IF p = DocPath THEN "doc.nodebook"
    ELSE IF p = OtherDocPath THEN "other.nodebook"
    ELSE p

\* Source.name: a base text and the ", Cell k" suffix (cell = 0: no suffix)
Name(base, k) == [base |-> base, cell |-> k]
NoName == Name("", 0)
NoRef == -1

(* ------------------------------ document ------------------------------- *)
Handles == 1..MaxCells

\* the one cell of the other notebook's document
OtherHandle == MaxCells + 1

\* every cell object a document has ever held has its own uri
CellUri(h) ==
    IF h = OtherHandle THEN CellUriString(OtherDocPath, 1)
    ELSE CellUriString(DocPath, h)

\* Array.prototype.indexOf, 0-based, -1 when absent
IndexOf(seq, x) ==
    IF \E i \in 1..Len(seq) : seq[i] = x
    THEN (CHOOSE i \in 1..Len(seq) : seq[i] = x /\ \A j \in 1..(i - 1) : seq[j] # x) - 1
    ELSE -1

\* document.cells.find(c => c.uri.toString() === uri): 0 when no cell matches
FindCell_byFragment(cs, uri) == uri.n

FindCell(cs, uri) ==
    IF \E i \in 1..Len(cs) : CellUri(cs[i]) = uri
    THEN cs[CHOOSE i \in 1..Len(cs) :
                CellUri(cs[i]) = uri /\ \A j \in 1..(i - 1) : CellUri(cs[j]) # uri]
    ELSE 0

RemoveAt(seq, i) == SubSeq(seq, 1, i - 1) \o SubSeq(seq, i + 1, Len(seq))
InsertAt(seq, i, x) == SubSeq(seq, 1, i - 1) \o <<x>> \o SubSeq(seq, i, Len(seq))

(* ------------------------------ sources -------------------------------- *)
\* DebugProtocol.Source; present = FALSE is an absent (undefined) Source field
Source(path, name, ref) ==
    [present |-> TRUE, path |-> path, name |-> name, sourceReference |-> ref]
NoSource ==
    [present |-> FALSE, path |-> Undefined, name |-> NoName, sourceReference |-> NoRef]

(* ------------------------------ dumpCell ------------------------------- *)
(* The part of the state dumpCell reads and writes, as one record k:       *)
(* cells, text, pathToCell, tmpDirectory, dirCount, dirs, files, faults.   *)
(* mfail: fs.mkdtempSync throws if it is called; wfail: fs.writeFileSync   *)
(* throws if it is called.  The result is the new k and the returned path  *)
(* (Undefined for undefined).                                              *)
MapSet(f, key, val) ==
    [x \in (DOMAIN f) \cup {key} |-> IF x = key THEN val ELSE f[x]]

\* the environment can still make a file-system call fail
CanFail(k) == k.faults < MaxFaults

\* if (!this.tmpDirectory) this.tmpDirectory = fs.mkdtempSync(...): a directory
\* that did not exist before
EnsureTmpDirectory_shared(k) ==
    [k EXCEPT !.tmpDirectory = 1,
              !.dirCount = IF k.dirCount = 0 THEN 1 ELSE k.dirCount,
              !.dirs = k.dirs \cup {1}]

EnsureTmpDirectory_always(k) ==
    [k EXCEPT !.tmpDirectory = k.dirCount + 1,
              !.dirCount = k.dirCount + 1,
              !.dirs = k.dirs \cup {k.dirCount + 1}]

EnsureTmpDirectory(k) ==
    IF k.tmpDirectory = 0
    THEN [k EXCEPT !.tmpDirectory = k.dirCount + 1,
                   !.dirCount = k.dirCount + 1,
                   !.dirs = k.dirs \cup {k.dirCount + 1}]
    ELSE k

\* this.pathToCell.set(cellPath, cell)
Register_skip(k, cellPath, cell) == k

Register(k, cellPath, cell) ==
    [k EXCEPT !.pathToCell = MapSet(k.pathToCell, cellPath, cell)]

\* fs.writeFileSync(cellPath, cell.document.getText() + sourceURL trailer)
WriteCell_once(k, cellPath, cell) ==
    IF cellPath \in DOMAIN k.files THEN k
    ELSE [k EXCEPT !.files = MapSet(k.files, cellPath, k.text[cell])]

WriteCell(k, cellPath, cell) ==
    [k EXCEPT !.files = MapSet(k.files, cellPath, k.text[cell])]

dumpCell_returnOnFailure(k, uri, mfail, wfail) ==
    LET cellUri == UriParse(uri)
        cell == FindCell(k.cells, uri)
        noDir == k.tmpDirectory = 0
        mkdtempThrows == noDir /\ mfail /\ CanFail(k)
        mkdtempFull == noDir /\ k.dirCount >= MaxDirs
        k1 == EnsureTmpDirectory(k)
        cellPath == CellPath(k1.tmpDirectory, cellUri.fragment)
        k2 == Register(k1, cellPath, cell)
        writeThrows == wfail /\ CanFail(k2)
        k3 == WriteCell(k2, cellPath, cell)
    IN  IF cellUri.threw THEN [k |-> k, ret |-> Undefined]
        ELSE IF cellUri.scheme # CellScheme THEN [k |-> k, ret |-> Undefined]
        ELSE IF cell = 0 THEN [k |-> k, ret |-> Undefined]
        ELSE IF mkdtempThrows
             THEN [k |-> [k EXCEPT !.faults = @ + 1], ret |-> Undefined]
        ELSE IF mkdtempFull THEN [k |-> k, ret |-> Undefined]
        ELSE IF writeThrows
             THEN [k |-> [k2 EXCEPT !.faults = @ + 1], ret |-> cellPath]
        ELSE [k |-> k3, ret |-> cellPath]

dumpCell(k, uri, mfail, wfail) ==
    LET cellUri == UriParse(uri)
        cell == FindCell(k.cells, uri)
        noDir == k.tmpDirectory = 0
        mkdtempThrows == noDir /\ mfail /\ CanFail(k)
        \* the file system has no room for another directory
        mkdtempFull == noDir /\ k.dirCount >= MaxDirs
        k1 == EnsureTmpDirectory(k)
        cellPath == CellPath(k1.tmpDirectory, cellUri.fragment)
        k2 == Register(k1, cellPath, cell)
        writeThrows == wfail /\ CanFail(k2)
        k3 == WriteCell(k2, cellPath, cell)
    IN  IF cellUri.threw THEN [k |-> k, ret |-> Undefined]
        ELSE IF cellUri.scheme # CellScheme THEN [k |-> k, ret |-> Undefined]
        ELSE IF cell = 0 THEN [k |-> k, ret |-> Undefined]
        ELSE IF mkdtempThrows
             THEN [k |-> [k EXCEPT !.faults = @ + 1], ret |-> Undefined]
        ELSE IF mkdtempFull THEN [k |-> k, ret |-> Undefined]
        ELSE IF writeThrows
             THEN [k |-> [k2 EXCEPT !.faults = @ + 1], ret |-> Undefined]
        ELSE [k |-> k3, ret |-> cellPath]

(* ---------------------------- visitSources ----------------------------- *)
(* A protocol message: type, name (event.event or command), success (of a  *)
(* response), container and sources.  container is "absent" when body /    *)
(* arguments is undefined, "empty" when the body is there but the member   *)
(* that holds the sources (stackFrames, sources, scopes, breakpoints,      *)
(* breakpoint) is not, "present" otherwise.  sources are the Source fields *)
(* of the message in order, NoSource where the field is absent.            *)
Message(type, name, success, container, sources) ==
    [type |-> type, name |-> name, success |-> success,
     container |-> container, sources |-> sources]

SingleEvents == {"output", "loadedSource"}
NestedEvents == {"breakpoint"}
SourceRequests_noGoto == {"setBreakpoints", "breakpointLocations", "source"}
SourceRequests == {"setBreakpoints", "breakpointLocations", "source", "gotoTargets"}
ArrayResponses == {"stackTrace", "loadedSources", "scopes",
                   "setFunctionBreakpoints", "setBreakpoints"}

\* sourceHook: the indices of the Sources that are present, in order
RECURSIVE PresentFrom_all(_, _)
PresentFrom_all(sources, i) ==
    IF i > Len(sources) THEN <<>>
    ELSE <<i>> \o PresentFrom_all(sources, i + 1)

RECURSIVE PresentFrom_reversed(_, _)
PresentFrom_reversed(sources, i) ==
    IF i > Len(sources) THEN <<>>
    ELSE IF sources[i].present THEN PresentFrom_reversed(sources, i + 1) \o <<i>>
    ELSE PresentFrom_reversed(sources, i + 1)

RECURSIVE PresentFrom(_, _)
PresentFrom(sources, i) ==
    IF i > Len(sources) THEN <<>>
    ELSE IF sources[i].present THEN <<i>> \o PresentFrom(sources, i + 1)
    ELSE PresentFrom(sources, i + 1)

\* the traversal: threw = a TypeError is raised before any callback;
\* visits = the indices of msg.sources the callback is invoked on, in order
visitSources_anyResponse(msg) ==
    LET all == [threw |-> FALSE, visits |-> PresentFrom(msg.sources, 1)]
        none == [threw |-> FALSE, visits |-> <<>>]
        error == [threw |-> TRUE, visits |-> <<>>]
    IN  CASE msg.type = "event" ->
                 IF msg.name \in SingleEvents
                 THEN (IF msg.container = "absent" THEN error ELSE all)
                 ELSE IF msg.name \in NestedEvents
                 THEN (IF msg.container # "present" THEN error ELSE all)
                 ELSE none
          [] msg.type = "request" ->
                 IF msg.name \in SourceRequests
                 THEN (IF msg.container = "absent" THEN error ELSE all)
                 ELSE none
          [] msg.type = "response" ->
                 IF msg.name \in ArrayResponses
                 THEN (IF msg.container # "present" THEN error ELSE all)
                 ELSE none
          [] OTHER -> none

visitSources_visitUnknown(msg) ==
    LET all == [threw |-> FALSE, visits |-> PresentFrom(msg.sources, 1)]
        none == [threw |-> FALSE, visits |-> <<>>]
        error == [threw |-> TRUE, visits |-> <<>>]
    IN  CASE msg.type = "event" ->
                 IF msg.name \in SingleEvents
                 THEN (IF msg.container = "absent" THEN error ELSE all)
                 ELSE IF msg.name \in NestedEvents
                 THEN (IF msg.container # "present" THEN error ELSE all)
                 ELSE all
          [] msg.type = "request" ->
                 IF msg.name \in SourceRequests
                 THEN (IF msg.container = "absent" THEN error ELSE all)
                 ELSE all
          [] msg.type = "response" ->
                 IF msg.success /\ msg.container # "absent"
                 THEN (IF msg.name \in ArrayResponses
                       THEN (IF msg.container = "empty" THEN error ELSE all)
                       ELSE all)
                 ELSE none
          [] OTHER -> all

visitSources(msg) ==
    LET all == [threw |-> FALSE, visits |-> PresentFrom(msg.sources, 1)]
        none == [threw |-> FALSE, visits |-> <<>>]
        error == [threw |-> TRUE, visits |-> <<>>]
    IN  CASE msg.type = "event" ->
                 IF msg.name \in SingleEvents
                 THEN (IF msg.container = "absent" THEN error ELSE all)
                 ELSE IF msg.name \in NestedEvents
                 THEN (IF msg.container # "present" THEN error ELSE all)
                 ELSE none
          [] msg.type = "request" ->
                 IF msg.name \in SourceRequests
                 THEN (IF msg.container = "absent" THEN error ELSE all)
                 ELSE none
          [] msg.type = "response" ->
                 IF msg.success /\ msg.container # "absent"
                 THEN (IF msg.name \in ArrayResponses
                       THEN (IF msg.container = "empty" THEN error ELSE all)
                       ELSE none)
                 ELSE none
          [] OTHER -> none

(* ------------------------------ the hooks ------------------------------ *)
\* the callback of onWillReceiveMessage on one Source
OutboundVisitor_noCheck(k, source, mfail, wfail) ==
    IF Truthy(source.path)
    THEN LET r == dumpCell(k, source.path, mfail, wfail)
         IN  [k |-> r.k, source |-> [source EXCEPT !.path = r.ret]]
    ELSE [k |-> k, source |-> source]

OutboundVisitor(k, source, mfail, wfail) ==
    IF Truthy(source.path)
    THEN LET r == dumpCell(k, source.path, mfail, wfail)
         IN  IF Truthy(r.ret)
             THEN [k |-> r.k, source |-> [source EXCEPT !.path = r.ret]]
             ELSE [k |-> r.k, source |-> source]
    ELSE [k |-> k, source |-> source]

\* the callback of onDidSendMessage on one Source
InboundVisitor_byConvention(k, source) ==
    IF Truthy(source.path) /\ source.path.kind = "tmp"
    THEN LET cell == source.path.n
             cellIndex == IndexOf(k.cells, cell)
             base == Basename(UriParse(CellUri(cell)).fsPath)
         IN  [source EXCEPT
                 !.path = CellUri(cell),
                 !.name = IF cellIndex >= 0 THEN Name(base, cellIndex + 1)
                                           ELSE Name(base, 0)]
    ELSE source

\* a callback that names the notebook document instead of the cell
InboundVisitor_docUri(k, source) ==
    IF Truthy(source.path) /\ source.path \in DOMAIN k.pathToCell
    THEN LET cell == k.pathToCell[source.path]
             cellIndex == IndexOf(k.cells, cell)
             base == Basename(UriParse(CellUri(cell)).fsPath)
         IN  [source EXCEPT
                 !.path = DocUriString(UriParse(CellUri(cell)).fsPath),
                 !.name = IF cellIndex >= 0 THEN Name(base, cellIndex + 1)
                                           ELSE Name(base, 0)]
    ELSE source

InboundVisitor_zeroBased(k, source) ==
    IF Truthy(source.path) /\ source.path \in DOMAIN k.pathToCell
    THEN LET cell == k.pathToCell[source.path]
             cellIndex == IndexOf(k.cells, cell)
             base == Basename(UriParse(CellUri(cell)).fsPath)
         IN  [source EXCEPT
                 !.path = CellUri(cell),
                 !.name = IF cellIndex >= 0 THEN Name(base, cellIndex)
                                           ELSE Name(base, 0)]
    ELSE source

InboundVisitor(k, source) ==
    IF Truthy(source.path) /\ source.path \in DOMAIN k.pathToCell
    THEN LET cell == k.pathToCell[source.path]
             cellIndex == IndexOf(k.cells, cell)
             base == Basename(UriParse(CellUri(cell)).fsPath)
         IN  [source EXCEPT
                 !.path = CellUri(cell),
                 !.name = IF cellIndex >= 0 THEN Name(base, cellIndex + 1)
                                           ELSE Name(base, 0)]
    ELSE source

\* The callbacks applied to the visited Sources, one after the other.  A
\* callback handed an absent Source reads a field of undefined: a TypeError
\* ends the traversal.
RECURSIVE OutboundAll(_, _, _, _, _)
OutboundAll(k, sources, visits, mfail, wfails) ==
    IF visits = <<>> THEN [k |-> k, sources |-> sources, threw |-> FALSE]
    ELSE LET i == Head(visits)
             r == OutboundVisitor(k, sources[i], mfail, i \in wfails)
         IN  IF ~sources[i].present
             THEN [k |-> k, sources |-> sources, threw |-> TRUE]
             ELSE OutboundAll(r.k, [sources EXCEPT ![i] = r.source], Tail(visits),
                              mfail, wfails)

RECURSIVE InboundAll(_, _, _)
InboundAll(k, sources, visits) ==
    IF visits = <<>> THEN [sources |-> sources, threw |-> FALSE]
    ELSE LET i == Head(visits)
         IN  IF ~sources[i].present
             THEN [sources |-> sources, threw |-> TRUE]
             ELSE InboundAll(k, [sources EXCEPT ![i] = InboundVisitor(k, sources[i])],
                             Tail(visits))

(* ------------------------------ inputs --------------------------------- *)
\* the path texts a Source of a message may carry
PathInputs ==
    {Undefined, FileUriString, InternalPath, CellUriString(OtherDocPath, 1)}
        \cup {CellUri(h) : h \in Handles}
        \cup {CellPath(d, h) : d \in 1..MaxDirs, h \in Handles}

\* one path text of each kind
PathSamples == {Undefined, InternalPath, CellUri(1), CellPath(1, 1)}

\* a Source with path p as a client or a debug adapter sends it, with a name
\* and a source reference of its own
Sent(p) == Source(p, Name("lib.js", 0), 7)

SourceInputs(paths) == {Sent(p) : p \in paths}

SourceSeqs(paths, lo, hi) ==
    UNION {[1..n -> SourceInputs(paths) \cup {NoSource}] : n \in lo..hi}

\* the messages of the debug adapter protocol that hold a Source, by type
DapSourceEvents == {"output", "loadedSource", "breakpoint"}
DapSourceRequests == {"setBreakpoints", "breakpointLocations", "source", "gotoTargets"}
DapSourceResponses == {"stackTrace", "loadedSources", "scopes",
                       "setFunctionBreakpoints", "setBreakpoints"}

\* messages with one Source field
SingleMessages(events, requests, paths) ==
    {Message("event", n, FALSE, "present", ss) :
        n \in events, ss \in SourceSeqs(paths, 1, 1)}
    \cup {Message("request", n, FALSE, "present", ss) :
        n \in requests, ss \in SourceSeqs(paths, 1, 1)}

\* responses whose body holds an array of Source carriers
ArrayMessages(responses, outcomes, paths, maxLen) ==
    {Message("response", n, ok, "present", ss) :
        n \in responses, ok \in outcomes, ss \in SourceSeqs(paths, 0, maxLen)}

\* messages of a listed kind whose body, arguments or carrier is missing
BrokenMessages ==
    {Message("event", n, FALSE, "absent", <<>>) : n \in DapSourceEvents}
    \cup {Message("event", n, FALSE, "empty", <<>>) : n \in {"breakpoint"}}
    \cup {Message("request", n, FALSE, "absent", <<>>) : n \in DapSourceRequests}
    \cup {Message("response", n, ok, c, <<>>) :
            n \in DapSourceResponses, ok \in BOOLEAN, c \in {"absent", "empty"}}

\* messages of kinds the traversal does not list
OtherMessages ==
    {Message(t, n, ok, c, <<>>) :
        t \in {"event", "request", "response", "telemetry"},
        n \in {"stopped", "launchVSCode", "continue"},
        ok \in BOOLEAN, c \in {"absent", "present"}}

\* messages the traversal does not list although they hold a Source: a type
\* of their own, a name no list has, and names listed for another type only
UnlistedMessages ==
    {Message(tn[1], tn[2], TRUE, "present", <<Sent(p)>>) :
        tn \in ({"telemetry"} \X {"stopped", "stackTrace", "source", "output"})
                 \cup ({"event"} \X {"stopped", "stackTrace", "source"})
                 \cup ({"request"} \X {"launchVSCode", "stackTrace", "output"})
                 \cup ({"response"} \X {"launchVSCode", "source", "output"}),
        p \in {CellUri(1), CellPath(1, 1)}}

\* every kind of message, over one path text of each kind
Messages ==
    SingleMessages(DapSourceEvents, DapSourceRequests, PathSamples)
        \cup ArrayMessages(DapSourceResponses, BOOLEAN, PathSamples, MaxFrames)
        \cup BrokenMessages \cup OtherMessages \cup UnlistedMessages

\* one kind of message of each direction and shape, over every path text
SessionMessages ==
    SingleMessages({"loadedSource"}, {"setBreakpoints"}, PathInputs)
        \cup ArrayMessages({"stackTrace"}, {TRUE}, PathInputs, MaxSessionFrames)

(* ------------------------------ state ---------------------------------- *)
NoFlight ==
    [dir |-> "none", msg |-> Message("", "", FALSE, "absent", <<>>),
     out |-> Message("", "", FALSE, "absent", <<>>), threw |-> FALSE,
     visits |-> <<>>, tracker |-> "none"]
NoEval == [uri |-> Undefined, path |-> Undefined, sent |-> FALSE, threw |-> FALSE,
           again |-> FALSE]

\* history record: dumpCell(uri) returned path
Dump(uri, path) == [uri |-> uri, path |-> path]

\* no hook and no eval is in progress
Idle == inflight = NoFlight /\ lastEval = NoEval

\* the record of the messages on their way, while it is kept
NoStream == [on |-> FALSE, entered |-> <<>>, left |-> <<>>]
CanEnter == stream.on => Len(stream.entered) < MaxStream
Entered(m) ==
    stream' = IF stream.on THEN [stream EXCEPT !.entered = Append(@, m)] ELSE stream
Left(m) ==
    stream' = IF stream.on THEN [stream EXCEPT !.left = Append(@, m)] ELSE stream

\* the record dumpCell works on, read from the state
K == [cells |-> cells, text |-> text, pathToCell |-> pathToCell,
      tmpDirectory |-> tmpDirectory, dirCount |-> dirCount, dirs |-> dirs,
      files |-> files, faults |-> faults]

\* the state takes the fields of k that dumpCell may have changed
Store(k) ==
    /\ pathToCell' = k.pathToCell
    /\ tmpDirectory' = k.tmpDirectory
    /\ dirCount' = k.dirCount
    /\ dirs' = k.dirs
    /\ files' = k.files
    /\ faults' = k.faults

EmptyMap == [x \in {} |-> 0]

\* no call of eval or restartKernel is suspended in this slot.  op: the method;
\* pc: the await the call is suspended at; h: the cell of eval; session: the
\* session whose start the call waits for; dbg: what the call read from
\* this.debugging; active: the call found a debug session; log: what the call
\* has done, in order
NoCall == [op |-> "none", pc |-> "none", h |-> 0, session |-> 0, dbg |-> FALSE,
           active |-> FALSE, log |-> <<>>]

\* no call of toggleDebugging yet.  count: the calls; was: this.debugging when
\* the last one began; stop: it asked the debugger to stop
NoToggle == [count |-> 0, was |-> FALSE, stop |-> FALSE, live |-> FALSE]

\* the other notebook's kernel after its construction: the document has one
\* cell, nothing is dumped
NoOther == [pathToCell |-> EmptyMap, tmpDirectory |-> 0]

RECURSIVE SumOver(_, _)
SumOver(f, S) ==
    IF S = {} THEN 0
    ELSE LET x == CHOOSE y \in S : TRUE IN f[x] + SumOver(f, S \ {x})

InitKernel ==
    /\ \E n \in 0..MaxCells :
          /\ cells = [i \in 1..n |-> i]
          /\ nextHandle = n + 1
    /\ text = [h \in Handles |-> 0]
    /\ outputs = [h \in Handles |-> <<>>]
    /\ nodeRuntime = FALSE
    /\ starting = 0
    /\ pathToCell = EmptyMap
    /\ tmpDirectory = 0
    /\ dirCount = 0
    /\ dirs = {}
    /\ files = EmptyMap
    /\ pending = {}
    /\ faults = 0
    /\ inflight = NoFlight
    /\ lastEval = NoEval
    /\ dumps = {}
    /\ stale = {}
    /\ other = NoOther
    /\ map = EmptyMap
    /\ associations = {DocPath}
    /\ activeDebugSession = 0
    /\ sessions = <<>>
    /\ runtimes = 0
    /\ debugging = FALSE
    /\ margin = [h \in Handles |-> "undefined"]
    /\ calls = [c \in 1..MaxCallers |-> NoCall]
    /\ toggle = NoToggle
    /\ nodebooks = [loc \in {DocPath, OtherDocPath} |-> IF loc = DocPath THEN 1 ELSE 0]

Init == InitKernel /\ stream = NoStream /\ kinds = [h \in Handles |-> "Code"]

(* ------------------------------ document ------------------------------- *)
\* the editor inserts a new cell at position i
InsertCell(i) ==
    /\ Idle
    /\ nextHandle <= MaxCells
    /\ cells' = InsertAt(cells, i, nextHandle)
    /\ nextHandle' = nextHandle + 1
    /\ UNCHANGED <<text, outputs, kernelVars, fsVars, inflight, lastEval, histVars>>
    /\ UNCHANGED <<auxVars, stream>>

\* the editor removes the cell at position i
RemoveCell(i) ==
    /\ Idle
    /\ cells' = RemoveAt(cells, i)
    /\ UNCHANGED <<nextHandle, text, outputs, kernelVars, fsVars, inflight, lastEval,
                   histVars>>
    /\ UNCHANGED <<auxVars, stream>>

\* the user edits the text of the cell at position i
EditCell(i) ==
    /\ Idle
    /\ SumOver(text, Handles) < MaxEdits
    /\ text' = [text EXCEPT ![cells[i]] = @ + 1]
    /\ UNCHANGED <<cells, nextHandle, outputs, kernelVars, fsVars, inflight, lastEval,
                   histVars>>
    /\ UNCHANGED <<auxVars, stream>>

(* ------------------------------ NodeKernel ----------------------------- *)
\* start() up to `await getPort()`: nothing happens when a runtime is recorded;
\* fewer than limit calls are suspended there
StartBeginWithin(limit) ==
    /\ Idle
    /\ ~nodeRuntime
    /\ starting < limit
    /\ starting' = starting + 1
    /\ UNCHANGED <<docVars, nodeRuntime, runtimes, pathToCell, tmpDirectory, fsVars,
                   inflight, lastEval, histVars>>
    /\ UNCHANGED <<auxVars, stream>>

StartBegin == StartBeginWithin(MaxStarts)

\* start() after getPort() resolved: spawn and record the runtime
StartFinish ==
    /\ Idle
    /\ starting > 0
    /\ runtimes < MaxRuntimes
    /\ starting' = starting - 1
    /\ nodeRuntime' = TRUE
    /\ runtimes' = runtimes + 1
    /\ UNCHANGED <<docVars, pathToCell, tmpDirectory, fsVars, inflight, lastEval, histVars>>
    /\ UNCHANGED <<auxVars, stream>>

\* the body of stop(): kill the runtime, forget tmpDirectory and hand it to rmdir
StopBody_keepDir ==
    /\ nodeRuntime' = FALSE
    /\ runtimes' = IF nodeRuntime THEN runtimes - 1 ELSE runtimes
    /\ UNCHANGED tmpDirectory
    /\ pending' = IF tmpDirectory # 0 THEN pending \cup {tmpDirectory} ELSE pending
    /\ UNCHANGED pathToCell
    /\ stale' = stale \cup dumps
    /\ dumps' = {}
    /\ UNCHANGED <<docVars, dirCount, dirs, files, faults, inflight, lastEval>>

StopBody_unguarded ==
    /\ nodeRuntime' = FALSE
    /\ runtimes' = IF nodeRuntime THEN runtimes - 1 ELSE runtimes
    /\ tmpDirectory' = 0
    /\ pending' = pending \cup {tmpDirectory}
    /\ UNCHANGED pathToCell
    /\ stale' = stale \cup dumps
    /\ dumps' = {}
    /\ UNCHANGED <<docVars, dirCount, dirs, files, faults, inflight, lastEval>>

StopBody ==
    /\ nodeRuntime' = FALSE
    /\ runtimes' = IF nodeRuntime THEN runtimes - 1 ELSE runtimes
    /\ tmpDirectory' = 0
    /\ pending' = IF tmpDirectory # 0 THEN pending \cup {tmpDirectory} ELSE pending
    /\ UNCHANGED pathToCell
    /\ stale' = stale \cup dumps
    /\ dumps' = {}
    /\ UNCHANGED <<docVars, dirCount, dirs, files, faults, inflight, lastEval>>

stop ==
    /\ Idle
    /\ StopBody
    /\ UNCHANGED <<starting, auxVars, stream>>

\* restart(): stop(), then start() runs up to its await in the same turn
restartWithin(limit) ==
    /\ Idle
    /\ starting < limit
    /\ StopBody
    /\ starting' = starting + 1
    /\ UNCHANGED <<auxVars, stream>>

restart == restartWithin(MaxStarts)

\* the callback rmdir calls when it is done with directory d (ok: it removed it)
RmdirDone_keepFiles(d, ok) ==
    /\ Idle
    /\ d \in pending
    /\ pending' = pending \ {d}
    /\ UNCHANGED <<docVars, kernelVars, dirCount, dirs, files, faults, inflight,
                   lastEval, histVars>>
    /\ UNCHANGED <<auxVars, stream>>

RmdirDone(d, ok) ==
    /\ Idle
    /\ d \in pending
    /\ ok \/ faults < MaxFaults
    /\ pending' = pending \ {d}
    /\ dirs' = IF ok THEN dirs \ {d} ELSE dirs
    /\ files' = IF ok THEN [p \in {q \in DOMAIN files : q.dir # d} |-> files[p]]
                      ELSE files
    /\ faults' = IF ok THEN faults ELSE faults + 1
    /\ UNCHANGED <<docVars, kernelVars, dirCount, inflight, lastEval, histVars>>
    /\ UNCHANGED <<auxVars, stream>>

\* eval(cell) up to its await: dump the cell and write `.load <path>` to the runtime
eval(h, mfail, wfail) ==
    /\ Idle
    /\ LET r == dumpCell(K, CellUri(h), mfail, wfail)
           sent == Truthy(r.ret) /\ nodeRuntime
       IN  /\ Store(r.k)
           /\ lastEval' = [uri |-> CellUri(h), path |-> r.ret,
                           sent |-> sent, threw |-> ~sent,
                           again |-> \E d \in dumps : d.uri = CellUri(h)]
           /\ dumps' = IF Truthy(r.ret)
                       THEN dumps \cup {Dump(CellUri(h), r.ret)}
                       ELSE dumps
    /\ UNCHANGED <<docVars, nodeRuntime, runtimes, starting, pending, inflight, stale>>
    /\ UNCHANGED <<auxVars, stream>>

\* the promise of eval() settles
EvalReturn ==
    /\ lastEval # NoEval
    /\ lastEval' = NoEval
    /\ UNCHANGED <<docVars, kernelVars, fsVars, inflight, histVars>>
    /\ UNCHANGED <<auxVars, stream>>

\* NodebookContentProvider.executeCell after `await nodebook.eval(cell)`: the
\* promise of eval() settles and the cell gets its one output, an Error output
\* when eval() threw and a Text output otherwise
executeCell_textAlways ==
    /\ lastEval # NoEval
    /\ outputs' = [outputs EXCEPT ![lastEval.uri.n] = <<"Text">>]
    /\ lastEval' = NoEval
    /\ UNCHANGED <<cells, nextHandle, text, kernelVars, fsVars, inflight, histVars>>
    /\ UNCHANGED <<auxVars, stream>>

executeCell ==
    /\ lastEval # NoEval
    /\ outputs' = [outputs EXCEPT ![lastEval.uri.n] =
                      IF lastEval.threw THEN <<"Error">> ELSE <<"Text">>]
    /\ lastEval' = NoEval
    /\ UNCHANGED <<cells, nextHandle, text, kernelVars, fsVars, inflight, histVars>>
    /\ UNCHANGED <<auxVars, stream>>

(* ------------------------------ tracker -------------------------------- *)
\* onWillReceiveMessage(m): VS Code -> debug adapter
onWillReceiveMessage(m, mfail, wfails) ==
    /\ Idle
    /\ CanEnter
    /\ Entered(m)
    /\ LET v == visitSources(m)
           r == OutboundAll(K, m.sources, v.visits, mfail, wfails)
       IN  /\ Store(r.k)
           /\ inflight' = [dir |-> "out", msg |-> m,
                           out |-> [m EXCEPT !.sources = r.sources],
                           threw |-> v.threw \/ r.threw,
                           visits |-> v.visits, tracker |-> "kernel"]
           /\ dumps' = dumps \cup
                 {Dump(m.sources[i].path, r.sources[i].path) :
                    i \in {j \in 1..Len(m.sources) :
                             r.sources[j].path # m.sources[j].path}}
    /\ UNCHANGED <<docVars, nodeRuntime, runtimes, starting, pending, lastEval, stale, auxVars>>

\* onDidSendMessage(m): debug adapter -> VS Code
onDidSendMessage_dumping(m) ==
    /\ Idle
    /\ CanEnter
    /\ Entered(m)
    /\ LET v == visitSources(m)
           r == InboundAll(K, m.sources, v.visits)
           w == OutboundAll(K, r.sources, v.visits, FALSE, {})
       IN  /\ Store(w.k)
           /\ inflight' = [dir |-> "in", msg |-> m,
                           out |-> [m EXCEPT !.sources = r.sources],
                           threw |-> v.threw \/ r.threw,
                           visits |-> v.visits, tracker |-> "kernel"]
    /\ UNCHANGED <<docVars, nodeRuntime, runtimes, starting, pending, lastEval, histVars,
                   auxVars>>

\* a hook that builds its result from the Sources it has resolved
onDidSendMessage_filtering(m) ==
    /\ Idle
    /\ CanEnter
    /\ Entered(m)
    /\ LET v == visitSources(m)
           r == InboundAll(K, m.sources, v.visits)
           Changed(src) == \E i \in 1..Len(m.sources) :
                              r.sources[i] = src /\ m.sources[i] # src
       IN  inflight' = [dir |-> "in", msg |-> m,
                        out |-> [m EXCEPT !.sources = SelectSeq(r.sources, Changed)],
                        threw |-> v.threw \/ r.threw,
                        visits |-> v.visits, tracker |-> "kernel"]
    /\ UNCHANGED <<docVars, kernelVars, fsVars, lastEval, histVars, auxVars>>

onDidSendMessage(m) ==
    /\ Idle
    /\ CanEnter
    /\ Entered(m)
    /\ LET v == visitSources(m)
           r == InboundAll(K, m.sources, v.visits)
       IN  inflight' = [dir |-> "in", msg |-> m,
                        out |-> [m EXCEPT !.sources = r.sources],
                        threw |-> v.threw \/ r.threw,
                        visits |-> v.visits, tracker |-> "kernel"]
    /\ UNCHANGED <<docVars, kernelVars, fsVars, lastEval, histVars, auxVars>>

\* the debug session transport passes the processed message on
Forward ==
    /\ inflight # NoFlight
    /\ inflight' = NoFlight
    /\ Left(inflight.out)
    /\ UNCHANGED <<docVars, kernelVars, fsVars, lastEval, histVars, auxVars>>

(* ------------------- notebooks, sessions and trackers ------------------ *)
\* the keys a debug configuration may carry as __notebookID
SessionKeys ==
    {Undefined, FileUriString, DocUriString(DocPath), DocUriString(OtherDocPath),
     CellUriString(OtherDocPath, 1), CellUri(1)}

\* the association register() stores for the notebook at loc:
\* key => document.cells.some(cell => cell.uri.toString() === key) || key === docKey
Association(loc, key) ==
    \/ key = DocUriString(loc)
    \/ IF loc = DocPath THEN FindCell(cells, key) # 0
       ELSE FindCell(<<OtherHandle>>, key) # 0

\* lookupNodebook(key): the registered notebook whose association accepts the
\* key, "none" for undefined
lookupNodebook_closed(key) ==
    IF Truthy(key) /\ \E loc \in {DocPath, OtherDocPath} : Association(loc, key)
    THEN CHOOSE loc \in {DocPath, OtherDocPath} : Association(loc, key)
    ELSE "none"

lookupNodebook(key) ==
    IF Truthy(key) /\ \E loc \in associations : Association(loc, key)
    THEN CHOOSE loc \in associations : Association(loc, key)
    ELSE "none"

\* a debug session as the provider sees it
Session(key, tracker, phase, removed) ==
    [key |-> key, tracker |-> tracker, phase |-> phase, removed |-> removed]

\* createDebugAdapterTracker(session): VS Code asks for a tracker when it
\* creates the session
createDebugAdapterTracker(key) ==
    /\ Idle
    /\ Len(sessions) < MaxSessions
    /\ sessions' = Append(sessions,
                          Session(key, lookupNodebook(key), "created", FALSE))
    /\ UNCHANGED <<docVars, kernelVars, fsVars, inflight, lastEval, histVars,
                   other, map, associations, activeDebugSession, stream, nbVars, kinds>>

\* addDebugSession without its test of this.activeDebugSession
onDidStartDebugSession_overwrite(s) ==
    /\ Idle
    /\ sessions[s].phase = "created"
    /\ sessions' = [sessions EXCEPT ![s].phase = "started"]
    /\ activeDebugSession' =
          IF lookupNodebook(sessions[s].key) = DocPath
          THEN s ELSE activeDebugSession
    /\ UNCHANGED <<docVars, kernelVars, fsVars, inflight, lastEval, histVars,
                   other, map, associations, stream, nbVars, kinds>>

\* onDidStartDebugSession(session) -> Nodebook.addDebugSession(session)
onDidStartDebugSession(s) ==
    /\ Idle
    /\ sessions[s].phase = "created"
    /\ sessions' = [sessions EXCEPT ![s].phase = "started"]
    /\ activeDebugSession' =
          IF lookupNodebook(sessions[s].key) = DocPath /\ activeDebugSession = 0
          THEN s ELSE activeDebugSession
    /\ UNCHANGED <<docVars, kernelVars, fsVars, inflight, lastEval, histVars,
                   other, map, associations, stream, nbVars, kinds>>

\* onDidTerminateDebugSession(session) -> Nodebook.removeDebugSession(session)
onDidTerminateDebugSession(s) ==
    /\ Idle
    /\ sessions[s].phase = "started"
    /\ LET hit == lookupNodebook(sessions[s].key) = DocPath /\ activeDebugSession = s
       IN  /\ sessions' = [sessions EXCEPT ![s].phase = "terminated",
                                           ![s].removed = hit]
           /\ activeDebugSession' = IF hit THEN 0 ELSE activeDebugSession
    /\ UNCHANGED <<docVars, kernelVars, fsVars, inflight, lastEval, histVars,
                   other, map, associations, stream, nbVars, kinds>>

\* no start, call or debug session of this notebook is outstanding
Quiet ==
    /\ starting = 0
    /\ sessions = <<>>
    /\ \A c \in 1..MaxCallers : calls[c] = NoCall

\* the handler without its test of lookupNodebook(docKey)
onDidOpenNotebookDocument_unchecked(loc) ==
    /\ Idle
    /\ (loc = DocPath /\ DocPath \notin associations) => Quiet
    /\ associations' = associations \cup {loc}
    /\ nodebooks' = [nodebooks EXCEPT ![loc] = @ + 1]
    /\ IF loc = DocPath
       THEN /\ nodeRuntime' = FALSE
            /\ pathToCell' = EmptyMap
            /\ tmpDirectory' = 0
            /\ debugging' = FALSE
            /\ activeDebugSession' = 0
            /\ UNCHANGED other
       ELSE /\ other' = NoOther
            /\ UNCHANGED <<nodeRuntime, pathToCell, tmpDirectory, debugging,
                           activeDebugSession>>
    /\ UNCHANGED <<docVars, runtimes, starting, fsVars, inflight, lastEval, histVars,
                   map, sessions, stream, margin, calls, toggle, kinds>>

\* onDidOpenNotebookDocument(document): a new Nodebook with a new kernel is
\* registered unless the document is registered already.  The notebook of
\* the kernel modelled in full is opened again only when nothing of its
\* earlier Nodebook is outstanding.
onDidOpenNotebookDocument(loc) ==
    /\ Idle
    /\ (loc = DocPath /\ DocPath \notin associations) => Quiet
    /\ IF lookupNodebook(DocUriString(loc)) = "none"
       THEN /\ associations' = associations \cup {loc}
            /\ nodebooks' = [nodebooks EXCEPT ![loc] = @ + 1]
            /\ IF loc = DocPath
               THEN /\ nodeRuntime' = FALSE
                    /\ pathToCell' = EmptyMap
                    /\ tmpDirectory' = 0
                    /\ debugging' = FALSE
                    /\ activeDebugSession' = 0
                    /\ UNCHANGED other
               ELSE /\ other' = NoOther
                    /\ UNCHANGED <<nodeRuntime, pathToCell, tmpDirectory, debugging,
                                   activeDebugSession>>
       ELSE UNCHANGED <<associations, nodebooks, other, nodeRuntime, pathToCell,
                        tmpDirectory, debugging, activeDebugSession>>
    /\ UNCHANGED <<docVars, runtimes, starting, fsVars, inflight, lastEval, histVars,
                   map, sessions, stream, margin, calls, toggle, kinds>>

\* onDidCloseNotebookDocument(document): unregister(), then dispose() of the
\* Nodebook: stopDebugger() and nodeKernel.stop()
onDidCloseNotebookDocument(loc) ==
    /\ Idle
    /\ lookupNodebook(DocUriString(loc)) # "none"
    /\ associations' = associations \ {lookupNodebook(DocUriString(loc))}
    /\ IF lookupNodebook(DocUriString(loc)) = DocPath
       THEN /\ StopBody
            /\ UNCHANGED other
       ELSE /\ other' = [other EXCEPT !.tmpDirectory = 0]
            /\ pending' = IF other.tmpDirectory # 0
                          THEN pending \cup {other.tmpDirectory} ELSE pending
            /\ UNCHANGED <<docVars, nodeRuntime, runtimes, pathToCell, tmpDirectory, dirCount,
                           dirs, files, faults, inflight, lastEval, histVars>>
    /\ nodebooks' = [nodebooks EXCEPT ![lookupNodebook(DocUriString(loc))] = @ - 1]
    /\ UNCHANGED <<starting, map, activeDebugSession, sessions, stream, debugging,
                   margin, calls, toggle, kinds>>

\* a tracker of this notebook has been handed to VS Code
TrackerGiven == \E s \in DOMAIN sessions : sessions[s].tracker = DocPath

\* VS Code passes a message to the hooks of a tracker it was given
TrackerOutbound(m) == TrackerGiven /\ onWillReceiveMessage(m, FALSE, {})
TrackerInbound(m) == TrackerGiven /\ onDidSendMessage(m)

(* ------------------------------ Nodebook ------------------------------- *)
(* Nodebook.eval and Nodebook.restartKernel are async: a call runs up to   *)
(* an await that really suspends it (getPort, a command, startDebugging)   *)
(* and goes on in a later step; an await of a promise that is already      *)
(* resolved goes on in the same step, because no event handler runs in     *)
(* between.  calls[c] holds a suspended call.                              *)

\* vscode.debug.startDebugging(undefined, getLaunchConfig()): VS Code creates
\* the session and asks the tracker factory for its tracker
StartDebugging ==
    /\ Len(sessions) < MaxSessions
    /\ sessions' = Append(sessions,
                          Session(DocUriString(DocPath),
                                  lookupNodebook(DocUriString(DocPath)),
                                  "created", FALSE))

\* NodeKernel.eval(cell) up to its await, as the last part of Nodebook.eval;
\* rt: a runtime is recorded now
EvalDumpBody(c, cl, rt) ==
    /\ LET r == dumpCell(K, CellUri(cl.h), FALSE, FALSE)
           sent == Truthy(r.ret) /\ rt
       IN  /\ Store(r.k)
           /\ lastEval' = [uri |-> CellUri(cl.h), path |-> r.ret,
                           sent |-> sent, threw |-> ~sent,
                           again |-> \E d \in dumps : d.uri = CellUri(cl.h)]
           /\ dumps' = IF Truthy(r.ret)
                       THEN dumps \cup {Dump(CellUri(cl.h), r.ret)}
                       ELSE dumps
    /\ calls' = [calls EXCEPT ![c] = [cl EXCEPT !.pc = "evaluating",
                                                !.log = Append(cl.log, "dump")]]

EvalDump(c, cl, rt) ==
    /\ EvalDumpBody(c, cl, rt)
    /\ UNCHANGED sessions

\* Nodebook.eval that does not wait for startDebugger()
EvalContinue_noAwait(c, cl, rt) ==
    IF debugging /\ activeDebugSession = 0
    THEN /\ StartDebugging
         /\ EvalDumpBody(c, [cl EXCEPT !.session = Len(sessions) + 1, !.dbg = TRUE,
                                   !.log = Append(cl.log, "request")], rt)
    ELSE EvalDump(c, [cl EXCEPT !.dbg = debugging], rt)

\* Nodebook.eval after `await this.nodeKernel.start()`:
\* if (this.debugging) await this.startDebugger(); return this.nodeKernel.eval(cell)
EvalContinue(c, cl, rt) ==
    IF debugging /\ activeDebugSession = 0
    THEN /\ StartDebugging
         /\ calls' = [calls EXCEPT ![c] =
                         [cl EXCEPT !.pc = "debug", !.session = Len(sessions) + 1,
                                    !.dbg = TRUE,
                                    !.log = Append(cl.log, "request")]]
         /\ UNCHANGED <<pathToCell, tmpDirectory, dirCount, dirs, files, faults,
                        lastEval, dumps>>
    ELSE EvalDump(c, [cl EXCEPT !.dbg = debugging], rt)

\* what no step of a Nodebook call changes
nbFrame == <<cells, nextHandle, text, inflight, stale, pending, other, map,
             associations, activeDebugSession, stream, debugging, kinds, margin,
             toggle, nodebooks>>

\* Nodebook.eval(cell) is called: start() suspends at getPort() when no
\* runtime is recorded, and returns at once when one is
NbEval(c, h) ==
    /\ Idle
    /\ calls[c] = NoCall
    /\ \E i \in 1..Len(cells) : cells[i] = h
    /\ IF ~nodeRuntime
       THEN /\ starting' = starting + 1
            /\ calls' = [calls EXCEPT ![c] = [NoCall EXCEPT !.op = "eval",
                                                            !.pc = "port", !.h = h]]
            /\ UNCHANGED <<nodeRuntime, runtimes, pathToCell, tmpDirectory, dirCount,
                           dirs, files, faults, lastEval, dumps, sessions>>
       ELSE /\ EvalContinue(c, [NoCall EXCEPT !.op = "eval", !.h = h,
                                              !.log = <<"start">>], TRUE)
            /\ UNCHANGED <<nodeRuntime, runtimes, starting>>
    /\ UNCHANGED <<nbFrame, outputs>>

\* getPort() of the start() of an eval resolves: the runtime is spawned and
\* recorded, and eval goes on
NbEvalPort(c) ==
    /\ Idle
    /\ calls[c].op = "eval"
    /\ calls[c].pc = "port"
    /\ runtimes < MaxRuntimes
    /\ nodeRuntime' = TRUE
    /\ runtimes' = runtimes + 1
    /\ starting' = starting - 1
    /\ EvalContinue(c, [calls[c] EXCEPT !.log = <<"start">>], TRUE)
    /\ UNCHANGED <<nbFrame, outputs>>

\* startDebugging of an eval resolves, after the session has started
NbEvalDebug(c) ==
    /\ Idle
    /\ calls[c].op = "eval"
    /\ calls[c].pc = "debug"
    /\ sessions[calls[c].session].phase # "created"
    /\ EvalDump(c, [calls[c] EXCEPT !.log = Append(@, "resolved")], nodeRuntime)
    /\ UNCHANGED <<nodeRuntime, runtimes, starting>>
    /\ UNCHANGED <<nbFrame, outputs>>

\* the promise of Nodebook.eval settles
NbEvalReturn(c) ==
    /\ calls[c].pc = "evaluating"
    /\ lastEval' = NoEval
    /\ calls' = [calls EXCEPT ![c] = NoCall]
    /\ UNCHANGED <<nodeRuntime, runtimes, starting, pathToCell, tmpDirectory, dirCount,
                   dirs, files, faults, dumps, sessions>>
    /\ UNCHANGED <<nbFrame, outputs>>

\* restartKernel() is called: stopDebugger() asks the debugger to stop when a
\* session is active, then the outputs are cleared; both are commands
NbRestart(c) ==
    /\ Idle
    /\ calls[c] = NoCall
    /\ calls' = [calls EXCEPT ![c] =
                    [NoCall EXCEPT !.op = "restart", !.pc = "clearing",
                                   !.dbg = debugging,
                                   !.active = (activeDebugSession # 0)]]
    /\ UNCHANGED <<nodeRuntime, runtimes, starting, pathToCell, tmpDirectory, dirCount,
                   dirs, files, faults, lastEval, dumps, sessions>>
    /\ UNCHANGED <<nbFrame, outputs>>

\* the commands are done: notebook.clearAllCellsOutputs has cleared the outputs
NbRestartCleared(c) ==
    /\ Idle
    /\ calls[c].op = "restart"
    /\ calls[c].pc = "clearing"
    /\ outputs' = [h \in Handles |-> <<>>]
    /\ calls' = [calls EXCEPT ![c].pc = "restart"]
    /\ UNCHANGED <<nodeRuntime, runtimes, starting, pathToCell, tmpDirectory, dirCount,
                   dirs, files, faults, lastEval, dumps, sessions>>
    /\ UNCHANGED nbFrame

\* restartKernel goes on: nodeKernel.restart() stops the kernel and its
\* start() suspends at getPort()
NbRestartKernel(c) ==
    /\ Idle
    /\ calls[c].op = "restart"
    /\ calls[c].pc = "restart"
    /\ StopBody
    /\ starting' = starting + 1
    /\ calls' = [calls EXCEPT ![c].pc = "port"]
    /\ UNCHANGED <<other, map, sessionVars, stream, debugging, kinds, margin,
                   toggle, nodebooks>>

\* getPort() of the restart resolves: the runtime is spawned and recorded;
\* if (this.debugging) await this.startDebugger()
NbRestartPort(c) ==
    /\ Idle
    /\ calls[c].op = "restart"
    /\ calls[c].pc = "port"
    /\ runtimes < MaxRuntimes
    /\ nodeRuntime' = TRUE
    /\ runtimes' = runtimes + 1
    /\ starting' = starting - 1
    /\ IF debugging /\ activeDebugSession = 0
       THEN /\ StartDebugging
            /\ calls' = [calls EXCEPT ![c].pc = "debug",
                                      ![c].session = Len(sessions) + 1]
       ELSE /\ calls' = [calls EXCEPT ![c].pc = "done",
                                      ![c].dbg = @ /\ debugging]
            /\ UNCHANGED sessions
    /\ UNCHANGED <<pathToCell, tmpDirectory, dirCount, dirs, files, faults, lastEval,
                   dumps>>
    /\ UNCHANGED <<nbFrame, outputs>>

\* startDebugging of the restart resolves
NbRestartDebug(c) ==
    /\ Idle
    /\ calls[c].op = "restart"
    /\ calls[c].pc = "debug"
    /\ sessions[calls[c].session].phase # "created"
    /\ calls' = [calls EXCEPT ![c].pc = "done"]
    /\ UNCHANGED <<nodeRuntime, runtimes, starting, pathToCell, tmpDirectory, dirCount,
                   dirs, files, faults, lastEval, dumps, sessions>>
    /\ UNCHANGED <<nbFrame, outputs>>

\* the promise of restartKernel settles
NbRestartReturn(c) ==
    /\ calls[c].op = "restart"
    /\ calls[c].pc = "done"
    /\ calls' = [calls EXCEPT ![c] = NoCall]
    /\ UNCHANGED <<nodeRuntime, runtimes, starting, pathToCell, tmpDirectory, dirCount,
                   dirs, files, faults, lastEval, dumps, sessions>>
    /\ UNCHANGED <<nbFrame, outputs>>

\* cell.metadata.breakpointMargin = flag, as text
MarginOf(flag) == IF flag THEN "true" ELSE "false"

\* toggleDebugging(document): it has no await and runs in one step
toggleDebugging ==
    /\ Idle
    /\ toggle.count < MaxToggles
    /\ toggle' = [count |-> toggle.count + 1, was |-> debugging,
                  stop |-> debugging /\ activeDebugSession # 0,
                  live |-> \E s \in DOMAIN sessions :
                              sessions[s].phase \in {"created", "started"}]
    /\ debugging' = ~debugging
    /\ margin' = [h \in Handles |->
                    IF (\E i \in 1..Len(cells) : cells[i] = h) /\ kinds[h] = "Code"
                    THEN MarginOf(~debugging) ELSE margin[h]]
    /\ UNCHANGED <<docVars, kernelVars, fsVars, inflight, lastEval, histVars, other,
                   map, sessionVars, stream, kinds, calls, nodebooks>>

(* ------------------------ the other notebook --------------------------- *)
\* the record dumpCell works on in the kernel of the other notebook: its
\* document has one cell, the file system is the same
KOther == [cells |-> <<OtherHandle>>, text |-> [h \in {OtherHandle} |-> 0],
           pathToCell |-> other.pathToCell, tmpDirectory |-> other.tmpDirectory,
           dirCount |-> dirCount, dirs |-> dirs, files |-> files, faults |-> faults]

StoreOther(k) ==
    /\ other' = [pathToCell |-> k.pathToCell, tmpDirectory |-> k.tmpDirectory]
    /\ dirCount' = k.dirCount
    /\ dirs' = k.dirs
    /\ files' = k.files
    /\ faults' = k.faults

\* onWillReceiveMessage(m) of the other notebook's tracker
OtherOutbound(m) ==
    /\ Idle
    /\ CanEnter
    /\ Entered(m)
    /\ LET v == visitSources(m)
           r == OutboundAll(KOther, m.sources, v.visits, FALSE, {})
       IN  /\ StoreOther(r.k)
           /\ inflight' = [dir |-> "out", msg |-> m,
                           out |-> [m EXCEPT !.sources = r.sources],
                           threw |-> v.threw \/ r.threw,
                           visits |-> v.visits, tracker |-> "other"]
    /\ UNCHANGED <<docVars, nodeRuntime, runtimes, starting, pathToCell, tmpDirectory, pending,
                   lastEval, histVars, map, sessionVars, nbVars, kinds>>

\* onDidSendMessage(m) of the other notebook's tracker
OtherInbound(m) ==
    /\ Idle
    /\ CanEnter
    /\ Entered(m)
    /\ LET v == visitSources(m)
           r == InboundAll(KOther, m.sources, v.visits)
       IN  inflight' = [dir |-> "in", msg |-> m,
                        out |-> [m EXCEPT !.sources = r.sources],
                        threw |-> v.threw \/ r.threw,
                        visits |-> v.visits, tracker |-> "other"]
    /\ UNCHANGED <<docVars, kernelVars, fsVars, lastEval, histVars, auxVars>>

\* stop() of the other notebook's kernel
OtherStop ==
    /\ Idle
    /\ other' = [other EXCEPT !.tmpDirectory = 0]
    /\ pending' = IF other.tmpDirectory # 0
                  THEN pending \cup {other.tmpDirectory} ELSE pending
    /\ UNCHANGED <<docVars, nodeRuntime, runtimes, starting, pathToCell, tmpDirectory, dirCount,
                   dirs, files, faults, inflight, lastEval, histVars, map,
                   sessionVars, stream, nbVars, kinds>>

(* -------------------- the synthetic-source variant -------------------- *)
(* The earlier NodeKernel gives the debugger no file: a cell is known to   *)
(* it as '<node_internals>/nodebook_cell_N.js', and NodeKernel.map keeps,  *)
(* per such name, the uri of the cell and the source reference the         *)
(* debugger reported for it.                                               *)
NotebookScheme == "vscode-notebook"

\* the uri of cell c (0-based) of the notebook at loc, its query being the
\* JSON text {"cell": c}; c = -1 stands for a query that is not JSON
NotebookUriString(loc, c) == Str("uri", NotebookScheme, loc, 0, c)

\* `<node_internals>/nodebook_cell_${cellNr}.js`
SyntheticPath(cellNr) == Str("path", "", "<node_internals>/nodebook_cell", 0, cellNr)

\* `foo.nodebook, cell ${cellNr}`
SyntheticName(cellNr) == Name("foo.nodebook, cell", cellNr)

\* s.path.indexOf('vscode-notebook:') === 0
HasNotebookPrefix(s) == s.kind = "uri" /\ s.scheme = NotebookScheme

\* s.path.indexOf('nodebook_cell_') >= 0
NamesCellFile(s) ==
    \/ s.kind = "tmp"
    \/ s.kind = "path" /\ s.loc = "<node_internals>/nodebook_cell"

NodeCellInfo(uri, ref) == [uri |-> uri, ref |-> ref]

\* getInfo(uri): the entry of the cell the query names, made on first use;
\* key = Undefined when JSON.parse throws
getInfo(mp, uri) ==
    LET lookupName == SyntheticPath(uri.n + 1)
    IN  IF uri.n < 0 THEN [map |-> mp, key |-> Undefined]
        ELSE IF lookupName \in DOMAIN mp THEN [map |-> mp, key |-> lookupName]
        ELSE [map |-> MapSet(mp, lookupName, NodeCellInfo(uri, 0)),
              key |-> lookupName]

\* the callback of onWillReceiveMessage on one Source (part_000)
MemoOutboundVisitor(mp, source) ==
    IF Truthy(source.path) /\ HasNotebookPrefix(source.path)
    THEN LET g == getInfo(mp, source.path)
         IN  IF Truthy(g.key)
             THEN [map |-> g.map,
                   source |-> [source EXCEPT !.path = g.key,
                                             !.sourceReference = g.map[g.key].ref]]
             ELSE [map |-> mp, source |-> source]
    ELSE [map |-> mp, source |-> source]

\* the callback of onDidSendMessage on one Source (part_000)
MemoInboundVisitor(mp, source) ==
    IF Truthy(source.path) /\ NamesCellFile(source.path)
          /\ source.path \in DOMAIN mp
    THEN [map |-> [mp EXCEPT ![source.path].ref = source.sourceReference],
          source |-> [source EXCEPT !.name = SyntheticName(source.path.n),
                                    !.path = mp[source.path].uri,
                                    !.sourceReference = 0]]
    ELSE [map |-> mp, source |-> source]

\* sourceHook(s) of kernel.ts: one callback for both directions.  Its first
\* branch assigns s.sourceRef, a property DebugProtocol.Source does not have:
\* sourceReference keeps the value it came with.
sourceHook(mp, source) ==
    IF ~Truthy(source.path) THEN [map |-> mp, source |-> source]
    ELSE IF HasNotebookPrefix(source.path)
    THEN LET g == getInfo(mp, source.path)
         IN  IF Truthy(g.key)
             THEN [map |-> g.map, source |-> [source EXCEPT !.path = g.key]]
             ELSE [map |-> mp, source |-> source]
    ELSE MemoInboundVisitor(mp, source)

\* a callback applied to the visited Sources, one after the other
RECURSIVE MemoAll(_, _, _, _)
MemoAll(mp, sources, visits, dir) ==
    IF visits = <<>> THEN [map |-> mp, sources |-> sources]
    ELSE LET i == Head(visits)
             r == IF dir = "out" THEN MemoOutboundVisitor(mp, sources[i])
                  ELSE MemoInboundVisitor(mp, sources[i])
         IN  MemoAll(r.map, [sources EXCEPT ![i] = r.source], Tail(visits), dir)

\* onWillReceiveMessage (dir = "out") and onDidSendMessage (dir = "in") of
\* the tracker of part_000
MemoHook(dir, m) ==
    /\ Idle
    /\ CanEnter
    /\ Entered(m)
    /\ LET v == visitSources(m)
           r == MemoAll(map, m.sources, v.visits, dir)
       IN  /\ map' = r.map
           /\ inflight' = [dir |-> dir, msg |-> m,
                           out |-> [m EXCEPT !.sources = r.sources],
                           threw |-> v.threw, visits |-> v.visits,
                           tracker |-> "memo"]
    /\ UNCHANGED <<docVars, kernelVars, fsVars, lastEval, histVars, other,
                   sessionVars, nbVars, kinds>>

\* the host calls sourceHook of the tracker of kernel.ts on one Source of a
\* message of direction dir
SourceHook(dir, source) ==
    /\ Idle
    /\ LET m == Message("", "", FALSE, "present", <<source>>)
           r == sourceHook(map, source)
       IN  /\ CanEnter
           /\ Entered(m)
           /\ map' = r.map
           /\ inflight' = [dir |-> dir, msg |-> m,
                           out |-> [m EXCEPT !.sources = <<r.source>>],
                           threw |-> FALSE, visits |-> <<1>>,
                           tracker |-> "sourceHook"]
    /\ UNCHANGED <<docVars, kernelVars, fsVars, lastEval, histVars, other,
                   sessionVars, nbVars, kinds>>

\* the file-system failures the environment may choose for one call of a hook
FailureChoices(m) ==
    {<<FALSE, {}>>, <<TRUE, {}>>} \cup {<<FALSE, {i}>> : i \in 1..Len(m.sources)}

(* A notebook with its kernel over its life: the document changes, the     *)
(* kernel starts, stops and restarts, cells are evaluated and a debug      *)
(* session's tracker processes messages.                                   *)
Next ==
    \/ \E i \in 1..(Len(cells) + 1) : InsertCell(i)
    \/ \E i \in 1..Len(cells) : RemoveCell(i)
    \/ StartBegin
    \/ StartFinish
    \/ stop
    \/ restart
    \/ \E d \in pending, ok \in BOOLEAN : RmdirDone(d, ok)
    \/ \E h \in 1..(nextHandle - 1), mfail \in BOOLEAN, wfail \in BOOLEAN :
          eval(h, mfail, wfail)
    \/ EvalReturn
    \/ \E m \in SessionMessages : \E f \in FailureChoices(m) :
          onWillReceiveMessage(m, f[1], f[2])
    \/ \E m \in SessionMessages : onDidSendMessage(m)
    \/ Forward

Spec == Init /\ [][Next]_vars

(* The tracker over every kind of message, with cells evaluated in         *)
(* between.                                                                *)
NextVisit ==
    \/ \E h \in 1..(nextHandle - 1) : eval(h, FALSE, FALSE)
    \/ EvalReturn
    \/ \E m \in Messages : onWillReceiveMessage(m, FALSE, {})
    \/ \E m \in Messages : onDidSendMessage(m)
    \/ Forward

SpecVisit == Init /\ [][NextVisit]_vars

\* the setBreakpoints requests of a client for the cells of the notebook
EditMessages ==
    SingleMessages({}, {"setBreakpoints"}, {CellUri(h) : h \in Handles})

(* The notebook in the editor: cells are edited and evaluated, breakpoints *)
(* are set in them, and the kernel is started and stopped.                 *)
NextEdit ==
    \/ \E i \in 1..Len(cells) : EditCell(i)
    \/ StartBegin
    \/ StartFinish
    \/ stop
    \/ \E d \in pending, ok \in BOOLEAN : RmdirDone(d, ok)
    \/ \E h \in 1..(nextHandle - 1), wfail \in BOOLEAN : eval(h, FALSE, wfail)
    \/ EvalReturn
    \/ \E m \in EditMessages, wfails \in {{}, {1}} :
          onWillReceiveMessage(m, FALSE, wfails)
    \/ Forward

SpecEdit == Init /\ [][NextEdit]_vars

(* Cells are executed: executeCell awaits eval and records the output,     *)
(* while cells are removed and the kernel is started.                      *)
NextExec ==
    \/ \E i \in 1..Len(cells) : RemoveCell(i)
    \/ StartBegin
    \/ StartFinish
    \/ \E h \in 1..(nextHandle - 1), mfail \in BOOLEAN, wfail \in BOOLEAN :
          eval(h, mfail, wfail)
    \/ executeCell

SpecExec == Init /\ [][NextExec]_vars

(* The temp storage over the runs of a kernel: cells are evaluated, the     *)
(* kernel is stopped, restarted and started, and rimraf removes the         *)
(* directories handed to it.  rimraf runs from the event loop whatever the  *)
(* extension does, and in this specification it succeeds; the timer eval    *)
(* waits on always fires, so an eval in progress returns.                   *)
NextTeardown ==
    \/ \E h \in 1..(nextHandle - 1), wfail \in BOOLEAN : eval(h, FALSE, wfail)
    \/ EvalReturn
    \/ StartBegin
    \/ StartFinish
    \/ stop
    \/ restart
    \/ \E d \in pending : RmdirDone(d, TRUE)

SpecTeardown ==
    /\ Init
    /\ [][NextTeardown]_vars
    /\ WF_vars(EvalReturn)
    /\ \A d \in 1..MaxDirs : SF_vars(RmdirDone(d, TRUE))

\* the messages of a debug session: a request of the client and an event of
\* the debug adapter, over one path text of each kind
TrackerRequests == SingleMessages({}, {"setBreakpoints"}, PathSamples)
TrackerEvents == SingleMessages({"loadedSource"}, {}, PathSamples)

(* Notebooks are opened and closed, debug sessions are created, started    *)
(* and terminated, and VS Code passes messages to the trackers it got.     *)
NextSession ==
    \/ \E key \in SessionKeys : createDebugAdapterTracker(key)
    \/ \E s \in DOMAIN sessions : onDidStartDebugSession(s)
    \/ \E s \in DOMAIN sessions : onDidTerminateDebugSession(s)
    \/ \E loc \in {DocPath, OtherDocPath} : onDidOpenNotebookDocument(loc)
    \/ \E loc \in {DocPath, OtherDocPath} : onDidCloseNotebookDocument(loc)
    \/ \E m \in TrackerRequests : TrackerOutbound(m)
    \/ \E m \in TrackerEvents : TrackerInbound(m)
    \/ Forward

SpecSession == Init /\ [][NextSession]_vars

\* requests that name a cell of either notebook, and events that name a file
\* of a temp directory
ScopeRequests ==
    SingleMessages({}, {"setBreakpoints"},
                   {CellUri(1), CellUriString(OtherDocPath, 1)})
ScopeEvents ==
    SingleMessages({"loadedSource"}, {}, {CellPath(d, 1) : d \in 1..MaxDirs})

(* Two notebooks are open, each with its own kernel and tracker; both are  *)
(* debugged and stopped, and their messages name cells and files of both.  *)
NextScope ==
    \/ \E m \in ScopeRequests : onWillReceiveMessage(m, FALSE, {})
    \/ \E m \in ScopeEvents : onDidSendMessage(m)
    \/ \E m \in ScopeRequests : OtherOutbound(m)
    \/ \E m \in ScopeEvents : OtherInbound(m)
    \/ stop
    \/ OtherStop
    \/ Forward

SpecScope == Init /\ [][NextScope]_vars

\* the kernel after its construction, with the messages of the session
\* being recorded
InitStream ==
    /\ InitKernel
    /\ stream = [NoStream EXCEPT !.on = TRUE]
    /\ kinds = [h \in Handles |-> "Code"]

(* One debug session: the client's requests and the debug adapter's events *)
(* and responses go through the hooks of the tracker, one after the other. *)
NextStream ==
    \/ \E m \in TrackerRequests : onWillReceiveMessage(m, FALSE, {})
    \/ \E m \in TrackerEvents : onDidSendMessage(m)
    \/ Forward

SpecStream == InitStream /\ [][NextStream]_vars

\* what the client sends about a cell, and what the debugger reports
MemoUris ==
    {NotebookUriString(DocPath, c) : c \in -1..(MaxCells - 1)}
        \cup {NotebookUriString(OtherDocPath, 0), FileUriString}
MemoPaths ==
    {SyntheticPath(n) : n \in 1..(MaxCells + 1)} \cup {InternalPath, CellPath(1, 1)}
MemoRefs == {0, 7, 8}
MemoSources(paths) == {Source(p, Name("lib.js", 0), r) : p \in paths, r \in MemoRefs}
MemoRequests ==
    {Message("request", "setBreakpoints", FALSE, "present", <<src>>) :
        src \in MemoSources(MemoUris)}
MemoEvents ==
    {Message("event", "loadedSource", FALSE, "present", <<src>>) :
        src \in MemoSources(MemoPaths)}

(* The tracker of part_000 in a debug session.                             *)
NextMemo ==
    \/ \E m \in MemoRequests : MemoHook("out", m)
    \/ \E m \in MemoEvents : MemoHook("in", m)
    \/ Forward

SpecMemo == Init /\ [][NextMemo]_vars

(* The tracker of kernel.ts in a debug session.                            *)
NextHook ==
    \/ \E src \in MemoSources(MemoUris) : SourceHook("out", src)
    \/ \E src \in MemoSources(MemoPaths) : SourceHook("in", src)
    \/ Forward

SpecHook == Init /\ [][NextHook]_vars

(* The kernel under calls of start(), restart() and stop() that overlap:   *)
(* start() is suspended at getPort() while other calls run.                *)
NextStart ==
    \/ StartBeginWithin(MaxCallers)
    \/ StartFinish
    \/ stop
    \/ restartWithin(MaxCallers)
    \/ \E h \in 1..(nextHandle - 1) : eval(h, FALSE, FALSE)
    \/ EvalReturn
    \/ \E d \in pending : RmdirDone(d, TRUE)

SpecStart == Init /\ [][NextStart]_vars

\* vscode.CellKind of a cell
CellKinds == {"Code", "Markdown"}

\* the notebook after it was opened, with cells of any kind
InitNotebook ==
    /\ InitKernel
    /\ stream = NoStream
    /\ kinds \in [Handles -> CellKinds]

(* The notebook in use: cells are evaluated and debugging is toggled while *)
(* earlier evaluations are still suspended, and the debug sessions VS Code *)
(* was asked for start and terminate.                                      *)
NextNotebook ==
    \/ \E c \in 1..MaxCallers, h \in Handles : NbEval(c, h)
    \/ \E c \in 1..MaxCallers : NbEvalPort(c)
    \/ \E c \in 1..MaxCallers : NbEvalDebug(c)
    \/ \E c \in 1..MaxCallers : NbEvalReturn(c)
    \/ toggleDebugging
    \/ \E s \in DOMAIN sessions : onDidStartDebugSession(s)
    \/ \E s \in DOMAIN sessions : onDidTerminateDebugSession(s)

SpecNotebook == InitNotebook /\ [][NextNotebook]_vars

(* The kernel is restarted between evaluations, one call at a time, while  *)
(* debugging is toggled and the debug sessions start and terminate.        *)
NextRestart ==
    \/ \E h \in Handles : NbEval(1, h)
    \/ NbEvalPort(1)
    \/ NbEvalDebug(1)
    \/ NbEvalReturn(1)
    \/ NbRestart(1)
    \/ NbRestartCleared(1)
    \/ NbRestartKernel(1)
    \/ NbRestartPort(1)
    \/ NbRestartDebug(1)
    \/ NbRestartReturn(1)
    \/ toggleDebugging
    \/ \E s \in DOMAIN sessions : onDidStartDebugSession(s)
    \/ \E s \in DOMAIN sessions : onDidTerminateDebugSession(s)

SpecRestart == Init /\ [][NextRestart]_vars

(* Documents are opened and closed, more than once and in any order, while *)
(* the cells of the first notebook are edited and evaluated.               *)
NextRegistry ==
    \/ \E loc \in {DocPath, OtherDocPath} : onDidOpenNotebookDocument(loc)
    \/ \E loc \in {DocPath, OtherDocPath} : onDidCloseNotebookDocument(loc)
    \/ \E i \in 1..(Len(cells) + 1) : InsertCell(i)
    \/ \E i \in 1..Len(cells) : RemoveCell(i)
    \/ \E h \in 1..(nextHandle - 1) : eval(h, FALSE, FALSE)
    \/ EvalReturn

SpecRegistry == Init /\ [][NextRegistry]_vars

(* Messages of both directions pass through the hooks of the tracker while *)
(* cells are inserted and removed and the kernel is stopped, so that the   *)
(* map holds paths of cells that are gone and of directories given up.     *)
NextRoundTrip ==
    \/ \E m \in SessionMessages : onWillReceiveMessage(m, FALSE, {})
    \/ \E m \in SessionMessages : onDidSendMessage(m)
    \/ Forward
    \/ \E i \in 1..(Len(cells) + 1) : InsertCell(i)
    \/ \E i \in 1..Len(cells) : RemoveCell(i)
    \/ stop

SpecRoundTrip == Init /\ [][NextRoundTrip]_vars

(* ================================ claims ================================ *)
\* the text parses as a URI with the notebook-cell scheme
HasCellScheme(s) == s.kind = "uri" /\ s.scheme = CellScheme

\* the parts of the state that make up the registry and the temp storage
storeVars == <<pathToCell, tmpDirectory, dirCount, dirs, files>>

\* type and name of the message are in the traversal's list
Listed(m) ==
    \/ m.type = "event" /\ m.name \in SingleEvents \cup NestedEvents
    \/ m.type = "request" /\ m.name \in SourceRequests
    \/ m.type = "response" /\ m.name \in ArrayResponses

\* C1: round trip.  Whenever dumpCell has returned the temp path P for the uri
\* of cell C since the last stop() (so the outbound hook rewrote C's uri to P),
\* the inbound callback applied to a Source with path P rewrites the path to
\* exactly C's uri.
C1_RoundTrip ==
    \A d \in dumps : InboundVisitor(K, Sent(d.path)).path = d.uri

\* C1 witness: the inbound hook has rewritten a path the registry got from a
\* dump of this session back to the uri it was dumped for
C1_Witness ==
    /\ inflight.dir = "in"
    /\ \E i \in 1..Len(inflight.msg.sources) :
          /\ inflight.msg.sources[i].present
          /\ Dump(inflight.out.sources[i].path, inflight.msg.sources[i].path) \in dumps

\* C2 (as claimed): restart invalidation.  After stop()/restart(), the inbound
\* callback leaves a Source that carries a path dumped before the stop
\* unmodified.
C2_RestartInvalidation ==
    \A d \in stale : InboundVisitor(K, Sent(d.path)) = Sent(d.path)

\* C3 (as claimed): at most one path of the registry maps to any given cell.
C3_OnePathPerCell ==
    \A p, q \in DOMAIN pathToCell : pathToCell[p] = pathToCell[q] => p = q

\* C4 (as claimed): stale mapping.  When a cell dumped in this session is no
\* longer in the document, the inbound callback leaves a Source carrying its
\* temp path unmodified as a whole.
C4_StaleMappingUntouched ==
    \A d \in dumps :
        FindCell(cells, d.uri) = 0 => InboundVisitor(K, Sent(d.path)) = Sent(d.path)

\* C5 (as claimed): no exception escapes a hook, whatever the message.
C5_NoExceptionEscapes == ~inflight.threw

\* C6: idempotence.  All the paths dumpCell has returned for one cell uri since
\* the last stop() are the same path.
C6_Idempotence ==
    \A d1, d2 \in dumps : d1.uri = d2.uri => d1.path = d2.path

\* C6 witness: eval has resolved a cell that had been resolved before in this
\* session, and got a path
C6_Witness == lastEval.again /\ Truthy(lastEval.path)

\* C7: fresh artifact after restart.  An evaluation that sends a cell to the
\* runtime after a stop() uses a file that exists, in a directory and under a
\* path that no dump of that cell before the stop() used.
C7_FreshAfterRestart ==
    lastEval.sent =>
        /\ lastEval.path \in DOMAIN files
        /\ lastEval.path.dir \in dirs
        /\ \A s \in stale :
              s.uri = lastEval.uri =>
                  lastEval.path # s.path /\ lastEval.path.dir # s.path.dir

\* C7 witness: a cell dumped before a stop() is evaluated after it
C7_Witness ==
    lastEval.sent /\ \E s \in stale : s.uri = lastEval.uri

\* C8: outbound non-cell passthrough.  The outbound hook leaves every Source
\* whose path does not have the notebook-cell scheme as it was, and a message
\* with only such Sources changes neither the registry nor the temp storage.
C8_OutboundNonCellPassthrough ==
    [][(inflight.dir = "none" /\ inflight'.dir = "out") =>
          LET m == inflight'.msg
              nonCell == {i \in 1..Len(m.sources) : ~HasCellScheme(m.sources[i].path)}
          IN  /\ \A i \in nonCell : inflight'.out.sources[i] = m.sources[i]
              /\ nonCell = 1..Len(m.sources) => UNCHANGED storeVars]_vars

\* C8 witness: the outbound hook has visited a Source with an ordinary path
C8_Witness ==
    /\ inflight.dir = "out"
    /\ ~inflight.threw
    /\ \E i \in 1..Len(inflight.msg.sources) :
          /\ inflight.msg.sources[i].present
          /\ inflight.msg.sources[i].path \in {FileUriString, InternalPath}

\* C9: inbound non-artifact passthrough.  The inbound hook leaves path, name
\* and sourceReference of every Source whose path is not a key of the registry
\* as they were.
C9_InboundNonArtifactPassthrough ==
    inflight.dir = "in" =>
        \A i \in 1..Len(inflight.msg.sources) :
            inflight.msg.sources[i].path \notin DOMAIN pathToCell =>
                inflight.out.sources[i] = inflight.msg.sources[i]

\* C9 witness: the inbound hook has processed a loadedSource event for an
\* internal library path, and a temp path the registry does not know
C9_Witness ==
    /\ inflight.dir = "in"
    /\ inflight.msg.name = "loadedSource"
    /\ inflight.msg.sources[1].present
    /\ inflight.msg.sources[1].path.kind \in {"path", "tmp"}
    /\ inflight.msg.sources[1].path \notin DOMAIN pathToCell

\* a message that carries no Source: a kind not in the list, or a listed kind
\* whose body is there and whose Source fields are all absent
CarriesNoSource(m) ==
    /\ \A i \in 1..Len(m.sources) : ~m.sources[i].present
    /\ Listed(m) => m.container = "present"

\* C10: isolation.  Both hooks return a message that carries no Source as it
\* was, normally, and change neither the registry nor the temp storage.
C10_Isolation ==
    [][(inflight.dir = "none" /\ inflight'.dir # "none"
            /\ CarriesNoSource(inflight'.msg)) =>
          /\ inflight'.out = inflight'.msg
          /\ ~inflight'.threw
          /\ UNCHANGED storeVars]_vars

\* C10 witness: a hook has processed a message of a listed kind whose Source
\* field is absent
C10_Witness ==
    /\ inflight.dir # "none"
    /\ Listed(inflight.msg)
    /\ CarriesNoSource(inflight.msg)
    /\ Len(inflight.msg.sources) > 0

\* type and name of the message are in the list the protocol documents
Documented(m) ==
    \/ m.type = "event" /\ m.name \in DapSourceEvents
    \/ m.type = "request" /\ m.name \in DapSourceRequests
    \/ m.type = "response" /\ m.name \in DapSourceResponses

\* the hook would rewrite Source i of the message in flight if it visited it
Rewritable(i) ==
    LET src == inflight.msg.sources[i]
    IN  /\ src.present
        /\ \/ inflight.dir = "out" /\ FindCell(cells, src.path) # 0
           \/ inflight.dir = "in" /\ src.path \in DOMAIN pathToCell

\* C11: ordering under visitation.  For a successful response of an
\* array-carrying command whose N elements all hold a Source, the callback is
\* invoked exactly N times, on element 1, 2, ..., N in this order.
C11_VisitOrder ==
    LET m == inflight.msg
    IN  (/\ inflight.dir # "none"
         /\ m.type = "response" /\ m.success /\ m.container = "present"
         /\ m.name \in DapSourceResponses
         /\ \A i \in 1..Len(m.sources) : m.sources[i].present)
        => inflight.visits = [i \in 1..Len(m.sources) |-> i]

\* C11 witness: a successful stackTrace response with two frames that hold
\* different Sources has been traversed
C11_Witness ==
    /\ inflight.dir = "in"
    /\ inflight.msg.type = "response" /\ inflight.msg.name = "stackTrace"
    /\ inflight.msg.success
    /\ Len(inflight.msg.sources) = 2
    /\ inflight.msg.sources[1].present /\ inflight.msg.sources[2].present
    /\ inflight.msg.sources[1] # inflight.msg.sources[2]
    /\ Len(inflight.visits) = 2

\* C12: a response that is not successful, or has no body, is not visited:
\* whatever its command, the callback is never invoked, nothing is raised
\* and the message is left as it was.
C12_OnlySuccessfulResponses ==
    LET m == inflight.msg
    IN  (/\ inflight.dir # "none"
         /\ m.type = "response"
         /\ ~m.success \/ m.container = "absent")
        => /\ inflight.visits = <<>>
           /\ ~inflight.threw
           /\ inflight.out = m

\* C12 witness: a hook has processed a failed response of a listed command
\* that holds a Source the hook would have rewritten
C12_Witness ==
    /\ inflight.dir # "none"
    /\ inflight.msg.type = "response" /\ ~inflight.msg.success
    /\ inflight.msg.name = "setBreakpoints"
    /\ Len(inflight.msg.sources) > 0
    /\ Rewritable(1)

C14_UnknownSkipped ==
    (inflight.dir # "none" /\ ~Documented(inflight.msg))
        => /\ inflight.visits = <<>>
           /\ ~inflight.threw
           /\ inflight.out = inflight.msg

\* C14 witness: a hook has processed a message of an unknown shape that holds
\* a Source the hook would have rewritten
C14_Witness ==
    /\ inflight.dir # "none"
    /\ ~Documented(inflight.msg)
    /\ inflight.msg.type \in {"telemetry", "event"}
    /\ Len(inflight.msg.sources) > 0
    /\ Rewritable(1)

\* the Sources of the inbound message in flight whose path the registry
\* resolves to a cell
Resolved ==
    {i \in 1..Len(inflight.msg.sources) :
        /\ inflight.dir = "in"
        /\ \E j \in 1..Len(inflight.visits) : inflight.visits[j] = i
        /\ inflight.msg.sources[i].path \in DOMAIN pathToCell}

\* C15: inbound display name.  When the inbound hook resolves a temp path to
\* a cell of the document, the Source gets the cell's uri as path and
\* "<basename of the notebook>, Cell <k>" as name, k being the 1-based
\* position of the cell in the document when the message is processed.
C15_InboundDisplayName ==
    \A i \in Resolved :
        LET cell == pathToCell[inflight.msg.sources[i].path]
        IN  \A pos \in 1..Len(cells) :
                cells[pos] = cell =>
                    /\ inflight.out.sources[i].path = CellUriString(DocPath, cell)
                    /\ inflight.out.sources[i].name = Name("doc.nodebook", pos)

\* C15 witness: the inbound hook has named a Source after a cell that stands
\* at position 2 of the document and was created first
C15_Witness ==
    \E i \in Resolved :
        /\ pathToCell[inflight.msg.sources[i].path] = 1
        /\ Len(cells) = 2 /\ cells[2] = 1
        /\ inflight.out.sources[i].name.cell = 2

\* C16 (as claimed): inbound source-reference reset.  Whenever the inbound
\* hook resolves a Source's path to a cell, the sourceReference of the
\* rewritten Source is 0 or absent.
C16_SourceReferenceReset ==
    \A i \in Resolved : inflight.out.sources[i].sourceReference \in {0, NoRef}

\* the Sources of message m whose path has the notebook-cell scheme and is the
\* uri of no cell of the kernel's document
Unresolvable(m) ==
    {i \in 1..Len(m.sources) :
        /\ m.sources[i].present
        /\ HasCellScheme(m.sources[i].path)
        /\ \A j \in 1..Len(cells) : CellUriString(DocPath, cells[j]) # m.sources[i].path}

\* C17: fail-open on an unresolvable cell reference.  The outbound hook
\* leaves a Source whose cell-scheme path matches no cell of the document as
\* it was and raises nothing; a message whose Sources are all of this kind
\* changes neither the registry nor the temp storage.
C17_FailOpenUnresolved ==
    [][(inflight.dir = "none" /\ inflight'.dir = "out") =>
          LET m == inflight'.msg
              held == {i \in 1..Len(m.sources) : m.sources[i].present}
          IN  /\ \A i \in Unresolvable(m) : inflight'.out.sources[i] = m.sources[i]
              /\ Unresolvable(m) # {} => ~inflight'.threw
              /\ (Unresolvable(m) # {} /\ Unresolvable(m) = held)
                    => UNCHANGED storeVars]_vars

\* C17 witness: the outbound hook has been handed the uri of a cell that was
\* removed from the document
C17_Witness ==
    /\ inflight.dir = "out"
    /\ \E i \in Unresolvable(inflight.msg) :
          /\ inflight.msg.sources[i].path.loc = DocPath
          /\ inflight.msg.sources[i].path.n < nextHandle

\* the Sources of message m whose path is the uri of a cell of the document
Resolvable(m) ==
    {i \in 1..Len(m.sources) :
        /\ m.sources[i].present
        /\ \E j \in 1..Len(cells) : CellUriString(DocPath, cells[j]) = m.sources[i].path}

\* C18: no half-applied mapping on materialization failure.  After the
\* outbound hook every Source is either exactly as it was, or carries a path
\* the registry maps to its cell and whose file and directory exist, with
\* name and sourceReference untouched; and when creating the directory or
\* writing the file has failed, the Source it failed for is as it was.
C18_NoHalfAppliedMapping ==
    [][(inflight.dir = "none" /\ inflight'.dir = "out") =>
          LET m == inflight'.msg
              out == inflight'.out
              failed == \/ faults' # faults
                        \/ /\ tmpDirectory = 0 /\ dirCount >= MaxDirs
                           /\ Resolvable(m) # {}
          IN  /\ ~inflight'.threw
              /\ \A i \in 1..Len(m.sources) :
                    \/ out.sources[i] = m.sources[i]
                    \/ /\ out.sources[i] = [m.sources[i] EXCEPT !.path = out.sources[i].path]
                       /\ out.sources[i].path \in DOMAIN pathToCell'
                       /\ CellUriString(DocPath, pathToCell'[out.sources[i].path])
                              = m.sources[i].path
                       /\ out.sources[i].path \in DOMAIN files'
                       /\ out.sources[i].path.dir \in dirs'
              /\ failed => \E i \in Resolvable(m) : out.sources[i] = m.sources[i]]_vars

\* C18 witness: the outbound hook has returned from a message for a cell of
\* the document whose file could not be written
C18_Witness ==
    /\ inflight.dir = "out"
    /\ faults = MaxFaults
    /\ tmpDirectory # 0
    /\ \E i \in Resolvable(inflight.msg) :
          /\ inflight.out.sources[i] = inflight.msg.sources[i]
          /\ CellPath(tmpDirectory, inflight.msg.sources[i].path.n) \in DOMAIN pathToCell
          /\ CellPath(tmpDirectory, inflight.msg.sources[i].path.n) \notin DOMAIN files

\* a step in which eval() is called for the cell with handle h
EvalCalled(h) ==
    lastEval = NoEval /\ lastEval' # NoEval /\ lastEval'.uri = CellUriString(DocPath, h)

\* C19: materialization failure is surfaced to the evaluation.  When the
\* file of the cell cannot be written (or its directory cannot be created),
\* or the cell is not in the document, or no runtime is recorded, eval()
\* throws and sends nothing to the runtime; and when eval() has thrown,
\* executeCell leaves the cell with exactly one output, an Error output.
C19_FailureSurfaced ==
    [][/\ \A h \in Handles :
            (/\ EvalCalled(h)
             /\ \/ faults' # faults
                \/ \A j \in 1..Len(cells) : cells[j] # h
                \/ ~nodeRuntime)
            => lastEval'.threw /\ ~lastEval'.sent
       /\ \A h \in Handles :
            (/\ lastEval # NoEval /\ lastEval.uri = CellUriString(DocPath, h)
             /\ lastEval.threw
             /\ lastEval' = NoEval)
            => outputs'[h] = <<"Error">>]_vars

\* C19 witness: with a runtime running, the file of a cell of the document
\* could not be written, and the cell has got an Error output
C19_Witness ==
    /\ nodeRuntime
    /\ lastEval = NoEval
    /\ \E i \in 1..Len(cells) :
          /\ outputs[cells[i]] = <<"Error">>
          /\ tmpDirectory # 0
          /\ CellPath(tmpDirectory, cells[i]) \in DOMAIN pathToCell
          /\ CellPath(tmpDirectory, cells[i]) \notin DOMAIN files

\* the registry maps path P to the cell with uri u, and the file P exists in
\* an existing directory and holds the text the cell has now
Materialized(u, P) ==
    \E h \in Handles :
        /\ u = CellUriString(DocPath, h)
        /\ P \in DOMAIN pathToCell /\ pathToCell[P] = h
        /\ P.dir \in dirs
        /\ P \in DOMAIN files /\ files[P] = text[h]

\* C20: materialize before forward.  When the outbound hook has returned with
\* a Source rewritten to the temp path P, and when eval() has sent `.load P`,
\* the registry maps P to the cell and the file P exists and holds the
\* cell's current text.
C20_MaterializeBeforeForward ==
    /\ inflight.dir = "out" =>
          \A i \in 1..Len(inflight.msg.sources) :
              inflight.out.sources[i].path # inflight.msg.sources[i].path
                  => Materialized(inflight.msg.sources[i].path,
                                  inflight.out.sources[i].path)
    /\ lastEval.sent => Materialized(lastEval.uri, lastEval.path)

\* C20 witness: the outbound hook has rewritten the Source of a cell that has
\* been edited and had been dumped in an earlier run of the kernel
C20_Witness ==
    /\ inflight.dir = "out"
    /\ \E i \in 1..Len(inflight.msg.sources) :
          /\ inflight.out.sources[i].path # inflight.msg.sources[i].path
          /\ text[inflight.msg.sources[i].path.n] > 0
          /\ \E d \in stale : d.uri = inflight.msg.sources[i].path

\* C21 (as claimed): atomic invalidation on restart.  No message processed
\* between stop() and the completion of the start() that follows it is
\* rewritten through an entry the registry got before the stop().
C21_AtomicInvalidation ==
    (inflight.dir = "in" /\ ~nodeRuntime /\ starting > 0) =>
        \A i \in 1..Len(inflight.msg.sources) :
            (\E d \in stale : d.path = inflight.msg.sources[i].path)
                => inflight.out.sources[i] = inflight.msg.sources[i]

\* C23: lookup is pure.  The inbound hook neither adds, removes nor changes
\* an entry of the registry and creates no temp directory and no file,
\* whether or not a path of the message is found in the registry.
C23_LookupPure ==
    [][(inflight.dir = "none" /\ inflight'.dir = "in") =>
          UNCHANGED <<pathToCell, tmpDirectory, dirCount, dirs, files, pending>>]_vars

\* C23 witness: the inbound hook has processed a response of which one path
\* is in the registry and another is not
C23_Witness ==
    /\ inflight.dir = "in"
    /\ \E i, j \in 1..Len(inflight.visits) :
          /\ inflight.msg.sources[inflight.visits[i]].path \in DOMAIN pathToCell
          /\ Truthy(inflight.msg.sources[inflight.visits[j]].path)
          /\ inflight.msg.sources[inflight.visits[j]].path \notin DOMAIN pathToCell

\* C25: per-cell path naming and injectivity.  Within one run of the kernel
\* the path handed out for a cell is "<tmpDirectory>/nodebook_cell_<fragment
\* of the cell's uri>.js", two cells never get the same path, and the entries
\* of the registry for the current directory pair cells and paths one to one.
C25_NamingInjective ==
    /\ \A d \in dumps :
          d.path = Str("tmp", "", "", tmpDirectory, UriParse(d.uri).fragment)
    /\ \A d1, d2 \in dumps : d1.path = d2.path => d1.uri = d2.uri
    /\ \A p, q \in DOMAIN pathToCell :
          (tmpDirectory # 0 /\ p.dir = tmpDirectory /\ q.dir = tmpDirectory
             /\ pathToCell[p] = pathToCell[q]) => p = q

\* C25 witness: two cells have been dumped in the same run of the kernel
C25_Witness ==
    \E d1, d2 \in dumps :
        /\ d1.uri # d2.uri
        /\ d1.path \in DOMAIN pathToCell /\ d2.path \in DOMAIN pathToCell

\* C28: stop() is safe when empty.  With no runtime recorded and no temp
\* directory, the body of stop() (alone, or as the first half of restart())
\* changes nothing of the document, the kernel, the temp storage or the
\* removals scheduled.
C28_StopWhenEmpty ==
    [][(~nodeRuntime /\ tmpDirectory = 0 /\ Idle /\ StopBody) =>
          UNCHANGED <<docVars, nodeRuntime, runtimes, pathToCell, tmpDirectory, fsVars,
                      inflight, lastEval, histVars>>]_vars

\* C28 witness: a kernel that was stopped before is restarted while it has
\* neither a runtime nor a temp directory: stop() has run on an empty kernel
C28_Witness ==
    /\ ~nodeRuntime /\ tmpDirectory = 0
    /\ starting > 0
    /\ stale # {}
    /\ \A d \in stale : d.path.dir \notin pending

\* what every step does to the temp storage: a step that abandons the temp
\* directory hands it to rmdir, stop() leaves no temp directory set, and no
\* file is written into a directory that is being removed
TeardownStep ==
    /\ (tmpDirectory # 0 /\ tmpDirectory' # tmpDirectory)
          => (tmpDirectory' = 0 /\ tmpDirectory \in pending')
    /\ (nodeRuntime /\ ~nodeRuntime') => (tmpDirectory' = 0)
    /\ \A p \in DOMAIN files' :
          (p \notin DOMAIN files \/ files'[p] # files[p])
              => (p.dir \notin pending /\ p.dir \notin pending' /\ p.dir \in dirs')

TornDown ==
    /\ TrackerGiven
    /\ \A s \in DOMAIN sessions : sessions[s].tracker = DocPath => sessions[s].removed

C22_TeardownStopsRewriting ==
    [][(TornDown /\ inflight.dir = "none" /\ inflight'.dir # "none") =>
           (inflight'.out = inflight'.msg /\ UNCHANGED storeVars)]_vars

(* C24: createDebugAdapterTracker returns a tracker exactly when the       *)
(* __notebookID of the session is the document uri, or the uri of a cell,  *)
(* of a notebook that is registered at the time of the call, and then it   *)
(* is the tracker of that notebook.                                        *)
KeysOf(loc) ==
    {DocUriString(loc)} \cup
        (IF loc = DocPath THEN {CellUriString(DocPath, cells[i]) : i \in 1..Len(cells)}
         ELSE {CellUriString(OtherDocPath, 1)})

FactoryStep ==
    Len(sessions') = Len(sessions) + 1 =>
        LET n == sessions'[Len(sessions')]
        IN  /\ (n.tracker # "none") <=> (\E loc \in associations : n.key \in KeysOf(loc))
            /\ n.tracker # "none" => (n.tracker \in associations /\ n.key \in KeysOf(n.tracker))

C24_TrackerFactory == [][FactoryStep]_vars

\* a session of the closed notebook got no tracker, and a session of a
\* registered one got its tracker
C24_Witness ==
    /\ DocPath \notin associations
    /\ \E s \in DOMAIN sessions :
          sessions[s].key = DocUriString(DocPath) /\ sessions[s].tracker = "none"
    /\ \E s \in DOMAIN sessions :
          sessions[s].key = CellUriString(OtherDocPath, 1)
              /\ sessions[s].tracker = OtherDocPath


(* C26: each registry holds cells of its own document only; the outbound   *)
(* hook of one notebook's tracker leaves a cell URI of the other notebook  *)
(* as it is, and the inbound hook of one notebook's tracker leaves a path  *)
(* that only the other notebook's kernel has created as it is.             *)
OwnedBy(uri) ==
    IF uri.kind = "uri" /\ uri.scheme = CellScheme THEN uri.loc ELSE "none"

CreatedHere == {d.path : d \in dumps \cup stale}

C26_RegistryScoping ==
    /\ \A p \in DOMAIN pathToCell : OwnedBy(CellUri(pathToCell[p])) = DocPath
    /\ \A p \in DOMAIN other.pathToCell :
          OwnedBy(CellUri(other.pathToCell[p])) = OtherDocPath
    /\ (DOMAIN pathToCell) \cap (DOMAIN other.pathToCell) = {}
    /\ inflight.dir = "out" =>
          \A i \in 1..Len(inflight.msg.sources) :
             LET owner == OwnedBy(inflight.msg.sources[i].path)
             IN  \/ owner = "none"
                 \/ (owner = DocPath) <=> (inflight.tracker = "kernel")
                 \/ inflight.out.sources[i] = inflight.msg.sources[i]
    /\ (inflight.dir = "in" /\ inflight.tracker = "other") =>
          \A i \in 1..Len(inflight.msg.sources) :
             inflight.msg.sources[i].path \in CreatedHere =>
                inflight.out.sources[i] = inflight.msg.sources[i]
    /\ (inflight.dir = "in" /\ inflight.tracker = "kernel") =>
          \A i \in 1..Len(inflight.msg.sources) :
             inflight.msg.sources[i].path \in (DOMAIN other.pathToCell) =>
                inflight.out.sources[i] = inflight.msg.sources[i]

\* both kernels have dumped a cell, and the other notebook's tracker is handed
\* a path of this notebook's kernel
C26_Witness ==
    /\ pathToCell # EmptyMap
    /\ other.pathToCell # EmptyMap
    /\ inflight.dir = "in"
    /\ inflight.tracker = "other"
    /\ \E i \in 1..Len(inflight.msg.sources) :
          inflight.msg.sources[i].path \in CreatedHere


(* C29: the messages that have left the tracker are the messages that      *)
(* entered it, one for one and in the same order, the last one entered     *)
(* being in the hook; a message that left differs from the one that        *)
(* entered only in fields of its Sources.                                  *)
SameMessage(a, b) ==
    /\ a.type = b.type
    /\ a.name = b.name
    /\ a.success = b.success
    /\ a.container = b.container
    /\ Len(a.sources) = Len(b.sources)
    /\ \A i \in 1..Len(a.sources) : a.sources[i].present = b.sources[i].present

C29_OrderPreserved ==
    stream.on =>
       /\ Len(stream.entered) =
             Len(stream.left) + (IF inflight = NoFlight THEN 0 ELSE 1)
       /\ \A i \in 1..Len(stream.left) : SameMessage(stream.entered[i], stream.left[i])
       /\ inflight # NoFlight =>
             /\ inflight.msg = stream.entered[Len(stream.entered)]
             /\ SameMessage(inflight.msg, inflight.out)

\* three different messages have gone through, a request and an event among
\* them that were rewritten
C29_Witness ==
    /\ stream.on
    /\ Len(stream.left) = MaxStream
    /\ \E i, j \in 1..MaxStream :
          /\ stream.entered[i].type = "request"
          /\ stream.entered[j].type = "event"
          /\ stream.left[i] # stream.entered[i]
          /\ stream.left[j] # stream.entered[j]
    /\ \A i, j \in 1..MaxStream : i # j => stream.entered[i] # stream.entered[j]


(* C30: when the tracker of the synthetic-source variant is handed a       *)
(* Source of the debugger whose path '<node_internals>/nodebook_cell_N.js' *)
(* has an entry, the Source leaves with the uri of the entry, the name of  *)
(* cell N and sourceReference 0, and the entry remembers the reference the *)
(* Source came with; when it is handed a Source of the client with the uri *)
(* of cell N, the Source leaves with that path and the reference the entry *)
(* remembers, 0 if nothing was reported, and no entry changes.             *)
MemoStep ==
    (inflight.dir = "none" /\ inflight'.dir # "none") =>
        LET src == inflight'.msg.sources[1]
            res == inflight'.out.sources[1]
            p == src.path
            q == SyntheticPath(p.n + 1)
        IN  /\ (inflight'.dir = "in" /\ p \in DOMAIN map) =>
                  /\ res.path = map[p].uri
                  /\ res.name = SyntheticName(p.n)
                  /\ res.sourceReference = 0
                  /\ map' = [map EXCEPT ![p].ref = src.sourceReference]
            /\ (inflight'.dir = "out" /\ p.kind = "uri"
                   /\ p.scheme = NotebookScheme /\ p.n >= 0) =>
                  /\ res.path = q
                  /\ res.sourceReference =
                        (IF q \in DOMAIN map THEN map[q].ref ELSE 0)
                  /\ \A x \in DOMAIN map : map'[x] = map[x]

C30_SourceReferenceMemo == [][MemoStep]_vars


(* C31: every path of the registry names a file that was written and is    *)
(* still there, in the temp directory the kernel uses now.                 *)
C31_EntriesHaveArtifact ==
    \A p \in DOMAIN pathToCell :
        /\ p \in DOMAIN files
        /\ p.dir \in dirs
        /\ p.dir = tmpDirectory


(* C33: the node processes that were spawned and not killed are the one    *)
(* recorded in nodeRuntime, or none.                                       *)
C33_OneRuntime == runtimes = (IF nodeRuntime THEN 1 ELSE 0)

(* C32: at most one debug session per notebook: the Nodebook never asks    *)
(* for a debug session while a session it asked for earlier is still       *)
(* starting or active, whatever the interleaving of eval and                *)
(* toggleDebugging with the start and terminate events.                     *)
C32_OneSession ==
    [][Len(sessions') > Len(sessions)
          => \A s \in DOMAIN sessions : sessions[s].phase = "terminated"]_vars

(* C34: a restartKernel called while debugging is on and a session is      *)
(* active has, once it has completed with debugging still on, asked for a  *)
(* new debug session, whenever the terminate event of the old session      *)
(* arrives.                                                                 *)
C34_RestartReattaches ==
    \A c \in 1..MaxCallers :
        (calls[c].op = "restart" /\ calls[c].pc = "done"
            /\ calls[c].dbg /\ calls[c].active)
        => calls[c].session # 0

(* C35: activeDebugSession changes only from undefined to s, by            *)
(* addDebugSession(s) when session s starts, and from s to undefined, by   *)
(* removeDebugSession(s) when session s terminates; a start while a        *)
(* session is active and the end of a session that is not the active one   *)
(* leave it as it is.                                                       *)
C35_Bookkeeping ==
    [][activeDebugSession' # activeDebugSession =>
          \/ /\ activeDebugSession = 0
             /\ activeDebugSession' \in DOMAIN sessions
             /\ sessions[activeDebugSession'].phase = "created"
             /\ sessions'[activeDebugSession'].phase = "started"
          \/ /\ activeDebugSession' = 0
             /\ sessions[activeDebugSession].phase = "started"
             /\ sessions'[activeDebugSession].phase = "terminated"
             /\ sessions'[activeDebugSession].removed]_vars

\* a session has started while another one was active, and a session that
\* was not the active one has ended, and the active one is still recorded
C35_Witness ==
    /\ activeDebugSession # 0
    /\ sessions[activeDebugSession].phase = "started"
    /\ \E s \in DOMAIN sessions :
          /\ s # activeDebugSession
          /\ sessions[s].phase = "terminated"
          /\ ~sessions[s].removed

(* C36: in Nodebook.eval the runtime is started before anything else;      *)
(* when debugging is on, the request for the debug session has completed   *)
(* before the cell is dumped and sent; when debugging is off, eval asks    *)
(* for no debug session.                                                    *)
C36_EvalOrder ==
    \A c \in 1..MaxCallers :
        LET cl == calls[c] IN
        (cl.op = "eval" /\ cl.pc \in {"debug", "evaluating"}) =>
            /\ cl.log[1] = "start"
            /\ nodeRuntime
            /\ cl.pc = "debug" =>
                  /\ cl.dbg
                  /\ cl.log = <<"start", "request">>
            /\ (cl.pc = "evaluating" /\ cl.session # 0) =>
                  /\ cl.dbg
                  /\ cl.log = <<"start", "request", "resolved", "dump">>
                  /\ sessions[cl.session].phase # "created"
            /\ (cl.pc = "evaluating" /\ cl.session = 0) =>
                  /\ cl.log = <<"start", "dump">>
                  /\ lastEval.uri = CellUri(cl.h)
            /\ ~cl.dbg => cl.session = 0

\* an eval with debugging on has dumped its cell after the session it asked
\* for had started
C36_Witness ==
    \E c \in 1..MaxCallers :
        /\ calls[c].op = "eval"
        /\ calls[c].pc = "evaluating"
        /\ calls[c].dbg
        /\ calls[c].session # 0
        /\ lastEval.sent

\* the last toggleDebugging has flipped the flag, and two calls have restored it
ToggleFlips ==
    /\ toggle.count > 0 => debugging = ~toggle.was
    /\ debugging = (toggle.count % 2 = 1)

\* every Code cell of the document has the margin of the flag, and no other
\* cell has one
ToggleMarks ==
    toggle.count > 0 =>
        \A i \in 1..Len(cells) :
            margin[cells[i]] = IF kinds[cells[i]] = "Code"
                               THEN MarginOf(debugging) ELSE "undefined"

\* the last toggleDebugging has asked the debugger to stop when debugging was
\* on and a debug session of the notebook was starting or running
ToggleStops ==
    (toggle.count > 0 /\ toggle.was /\ toggle.live) => toggle.stop

(* C39: toggleDebugging flips the debugging flag once per call, so that    *)
(* two calls restore it, asks the debugger to stop when debugging was on,  *)
(* and leaves every Code cell of the document with breakpointMargin equal  *)
(* to the new flag and the other cells untouched.                          *)
C39_Toggle == ToggleFlips /\ ToggleMarks /\ ToggleStops

\* the cells a notebook has now, as the keys VS Code knows them by
CurrentCellKeys(loc) ==
    IF loc = DocPath
    THEN {CellUri(cells[i]) : i \in 1..Len(cells)}
    ELSE {CellUri(OtherHandle)}

(* C38: whatever the order of the open and close events, one Nodebook      *)
(* exists for a registered document and none for any other (a second open  *)
(* event creates none, a close event disposes of it); a lookup by the key  *)
(* of a registered document or by the URI of one of its current cells      *)
(* returns its Nodebook, and a lookup by the key of a closed document      *)
(* returns undefined.                                                       *)
C38_Registration ==
    \A loc \in {DocPath, OtherDocPath} :
        /\ nodebooks[loc] = IF loc \in associations THEN 1 ELSE 0
        /\ loc \in associations =>
              /\ lookupNodebook(DocUriString(loc)) = loc
              /\ \A key \in CurrentCellKeys(loc) : lookupNodebook(key) = loc
        /\ loc \notin associations => lookupNodebook(DocUriString(loc)) = "none"

\* the second notebook is registered and has its cell, and the first one,
\* whose cells were evaluated, has been closed and its directory given up
C38_Witness ==
    /\ OtherDocPath \in associations
    /\ DocPath \notin associations
    /\ pending # {}
    /\ lookupNodebook(CellUri(OtherHandle)) = OtherDocPath
    /\ Len(cells) > 0

\* the Sources of message m after onWillReceiveMessage(m) in the state as it is
OutboundOf(m) ==
    OutboundAll(K, m.sources, visitSources(m).visits, FALSE, {}).sources

\* the Sources of message m after onDidSendMessage(m) in the state as it is
InboundOf(m) == InboundAll(K, m.sources, visitSources(m).visits).sources

(* C37: the outbound hook applied to the message it has just processed     *)
(* leaves it as it is, and so does the inbound hook applied to the message *)
(* it has just processed; the inbound hook applied to the message the      *)
(* outbound hook has just processed gives every Source whose path was      *)
(* rewritten its cell URI back.                                            *)
C37_HooksIdempotent ==
    /\ inflight.dir = "out" =>
          /\ OutboundOf(inflight.out) = inflight.out.sources
          /\ \A i \in 1..Len(inflight.msg.sources) :
                inflight.out.sources[i].path # inflight.msg.sources[i].path
                => InboundOf(inflight.out)[i].path = inflight.msg.sources[i].path
    /\ inflight.dir = "in" =>
          InboundOf(inflight.out) = inflight.out.sources

\* the outbound hook has rewritten a path while the map also holds the path
\* of a cell that is gone
C37_Witness ==
    /\ inflight.dir = "out"
    /\ \E i \in 1..Len(inflight.msg.sources) :
          inflight.out.sources[i].path # inflight.msg.sources[i].path
    /\ \E p \in DOMAIN pathToCell : IndexOf(cells, pathToCell[p]) < 0

====
